---- MODULE Spec2Model ----
(***************************************************************************)
(* Hybrid knowledge retrieval of the ALU student companion backend:        *)
(*   - ExtendedRetrievalEngine (retrieval_engine_extended.py): the facade  *)
(*     retrieve_context, its TTL cache and the result merger;              *)
(*   - RetrievalEngine.retrieve_context (retrieval_engine.py): the vector  *)
(*     similarity query, whose failures are turned into an empty list;     *)
(*   - ALUBrainManager / BrainSearchEngine (alu_brain): the structured     *)
(*     knowledge base, its scoring search, its TTL cache and statistics.   *)
(*                                                                         *)
(* Text is a sequence of one-character strings.  Scores of the structured  *)
(* search are kept multiplied by 4 (ScoreScale), so that the weights 0.5   *)
(* and 1.5 of the code stay integers.                                      *)
(***************************************************************************)
EXTENDS Integers, Sequences, FiniteSets, TLC

VARIABLES
    \* ---- _merge_results called on its own (SpecMerge)
    arg_vector_results, \* the list object passed as vector_results
    arg_brain_results,  \* the list object passed as brain_results
    merge_args,         \* the two arguments as they were at the call
    merge_ret,          \* the list _merge_results returned
    merge_pc            \* "idle", "input" before the call, "done" after it

mergeVars == <<arg_vector_results, arg_brain_results, merge_args, merge_ret, merge_pc>>

VARIABLES
    \* ---- the retrieval engine (Spec, SpecSearch)
    brain_files,        \* the JSON files of the alu_brain directory, in glob order
    knowledge_base,     \* ALUBrainManager.knowledge_base
    scoring_by_query,   \* what the scoring loop of search gives for each query
    now,                \* time.time()
    _search_cache,      \* BrainSearchEngine._search_cache
    _search_stats,      \* BrainSearchEngine._search_stats
    _cache,             \* ExtendedRetrievalEngine._cache
    last                \* the last call that ended: arguments and outcome

engineVars == <<brain_files, knowledge_base, scoring_by_query, now, _search_cache, _search_stats, _cache, last>>

VARIABLES
    \* ---- RetrievalEngine._chunk_text called on its own (SpecChunk)
    chunk_text,         \* the argument text
    chunk_size,         \* the argument chunk_size
    chunk_overlap,      \* the argument chunk_overlap
    start,              \* the local variable start
    chunks,             \* the list chunks, each chunk with the slice it is
    chunk_pc            \* "idle", "called", "loop", "returned"

chunkVars == <<chunk_text, chunk_size, chunk_overlap, start, chunks, chunk_pc>>

VARIABLES
    \* ---- the score of single entries (SpecScore)
    score_args,         \* the query, the category and the two entries scored
    score_ret,          \* the score dicts and final scores of the two entries
    score_pc            \* "idle", "input" before the scoring, "done" after it

scoreVars == <<score_args, score_ret, score_pc>>

VARIABLES
    \* ---- search calls of overlapping requests (SpecThreads)
    thread_pc,          \* per thread: the statement of search it is at
    thread_call,        \* per thread: the arguments query, top_k of its call
    thread_reg,         \* per thread: the value it read and has not written back
    thread_ret          \* per thread: what its call returned, and whether
                        \* it came from the cache

threadVars == <<thread_pc, thread_call, thread_reg, thread_ret>>

VARIABLES
    \* ---- upload, background indexing and delete of one document (SpecDocs)
    metadata_file,      \* the doc ids of document_metadata.json
    text_files,         \* the doc ids whose text file exists
    collection,         \* the chunks of the vector collection
    doc_chunks,         \* how many chunks the text of the document gives
    upload_pc,          \* the upload request
    task_pc,            \* the background task update_vector_store(doc_id)
    task_chunks,        \* its local list of chunk ids
    delete_pc,          \* the delete request
    delete_ids,         \* results["ids"] of remove_document
    deletes             \* how many delete requests were made

docVars == <<metadata_file, text_files, collection, doc_chunks, upload_pc,
             task_pc, task_chunks, delete_pc, delete_ids, deletes>>

VARIABLES
    \* ---- _store_in_cache of the two caches called on its own (SpecPut)
    put_cache,          \* the cache dict
    put_before,         \* the dict as it was before the latest store
    put_call,           \* the latest store: which cache, key, value, time
    put_now,            \* time.time()
    put_count           \* how many stores were made

putVars == <<put_cache, put_before, put_call, put_now, put_count>>

VARIABLES
    \* ---- ConversationMemory and the chat endpoint (SpecConv)
    conversations,      \* ConversationMemory.conversations: id -> Conversation
    user_conversations, \* ConversationMemory.user_conversations: user -> ids
    conv_ids,           \* how many conversation ids uuid4 has given out
    conv_clock,         \* time.time(), as the number of stamps taken
    conv_messages,      \* how many messages were added
    conv_requests       \* how many chat requests were handled

convVars == <<conversations, user_conversations, conv_ids, conv_clock,
              conv_messages, conv_requests>>

vars == <<mergeVars, engineVars, chunkVars, scoreVars, threadVars, docVars,
          putVars, convVars>>

\* What a step of one part of the program leaves alone
outsideEngine == <<mergeVars, chunkVars, scoreVars, threadVars, docVars,
    putVars, convVars>>
outsideMerge == <<engineVars, chunkVars, scoreVars, threadVars, docVars,
    putVars, convVars>>
outsideChunk == <<engineVars, mergeVars, scoreVars, threadVars, docVars,
    putVars, convVars>>
outsideScore == <<engineVars, mergeVars, chunkVars, threadVars, docVars,
    putVars, convVars>>
outsideThreads == <<mergeVars, chunkVars, scoreVars, docVars,
    putVars, convVars>>
outsideDocs == <<engineVars, mergeVars, chunkVars, scoreVars, threadVars,
    putVars, convVars>>
outsidePut == <<engineVars, mergeVars, chunkVars, scoreVars, threadVars, docVars,
    convVars>>
outsideConv == <<engineVars, mergeVars, chunkVars, scoreVars, threadVars, docVars,
    putVars>>

(***************************************************************************)
(* Sequences                                                               *)
(***************************************************************************)
Min(a, b) == IF a <= b THEN a ELSE b

\* LetIn(e, F) is F(e) with e evaluated once, before F is applied: what a
\* local variable of the code is
LetIn(value, Body(_)) == CHOOSE result \in {Body(x) : x \in {value}} : TRUE

\* seq[:n] of Python, n >= 0
Take(seq, n) == SubSeq(seq, 1, Min(n, Len(seq)))

\* seq[n:] of Python, n >= 0
Drop(seq, n) == SubSeq(seq, Min(n, Len(seq)) + 1, Len(seq))

\* An insertion that puts x one place too far, after the element at index i
ListInsertAfter(seq, i, x) ==
    IF i + 1 >= Len(seq) THEN Append(seq, x)
    ELSE SubSeq(seq, 1, i + 1) \o <<x>> \o SubSeq(seq, i + 2, Len(seq))

\* list.insert(i, x) of Python for 0 <= i: x ends up at 0-based index i,
\* or at the end when i is past the end
ListInsert(seq, i, x) ==
    IF i >= Len(seq) THEN Append(seq, x)
    ELSE SubSeq(seq, 1, i) \o <<x>> \o SubSeq(seq, i + 1, Len(seq))

\* A descending sort that is not stable: elements of equal key come out in
\* the reverse of their order
SortDescUnstable(seq, key) ==
    LET n == Len(seq)
        Rank(i) == 1 + Cardinality({j \in 1..n :
                        \/ key[j] > key[i]
                        \/ key[j] = key[i] /\ j > i})
    IN  [r \in 1..n |-> seq[CHOOSE i \in 1..n : Rank(i) = r]]

\* list.sort(key=..., reverse=True): descending by key, and stable, so
\* elements of equal key keep their order.  key[i] is the key of seq[i].
SortDesc(seq, key) ==
    LET n == Len(seq)
        Rank(i) == 1 + Cardinality({j \in 1..n :
                        \/ key[j] > key[i]
                        \/ key[j] = key[i] /\ j < i})
    IN  [r \in 1..n |-> seq[CHOOSE i \in 1..n : Rank(i) = r]]

(***************************************************************************)
(* Text: str methods and the regular expressions the search engine uses    *)
(***************************************************************************)
UpperCase == <<"A", "B", "C", "D", "E", "F", "G", "H", "I", "J", "K", "L", "M",
               "N", "O", "P", "Q", "R", "S", "T", "U", "V", "W", "X", "Y", "Z">>
LowerCase == <<"a", "b", "c", "d", "e", "f", "g", "h", "i", "j", "k", "l", "m",
               "n", "o", "p", "q", "r", "s", "t", "u", "v", "w", "x", "y", "z">>
DigitChars == <<"0", "1", "2", "3", "4", "5", "6", "7", "8", "9">>

Range(f) == {f[i] : i \in DOMAIN f}

LowerChar(c) ==
    IF \E i \in DOMAIN UpperCase : UpperCase[i] = c
    THEN LowerCase[CHOOSE i \in DOMAIN UpperCase : UpperCase[i] = c]
    ELSE c

\* str.lower()
lower(text) == [i \in 1..Len(text) |-> LowerChar(text[i])]

\* \w and \s of the re module
IsWordChar(c) == c \in Range(UpperCase) \cup Range(LowerCase) \cup Range(DigitChars) \cup {"_"}
IsSpace(c) == c \in {" ", "\n", "\t"}

\* str.replace(old, new) for single characters
replace(text, old, new) == [i \in 1..Len(text) |-> IF text[i] = old THEN new ELSE text[i]]

\* re.sub(r'[^\w\s]', ' ', text)
strip_punctuation(text) ==
    [i \in 1..Len(text) |-> IF IsWordChar(text[i]) \/ IsSpace(text[i]) THEN text[i] ELSE " "]

\* pat occurs in text at the 1-based position i
OccursAt(text, pat, i) ==
    /\ i >= 1
    /\ i + Len(pat) - 1 <= Len(text)
    /\ SubSeq(text, i, i + Len(pat) - 1) = pat

\* pat in text
contains(text, pat) == \E i \in 1..(Len(text) - Len(pat) + 1) : OccursAt(text, pat, i)

\* text.find(pat): the 0-based index of the first occurrence, or -1
find(text, pat) ==
    IF contains(text, pat)
    THEN (CHOOSE i \in 1..(Len(text) - Len(pat) + 1) :
            /\ OccursAt(text, pat, i)
            /\ \A j \in 1..(i - 1) : ~OccursAt(text, pat, j)) - 1
    ELSE -1

\* text.count(pat) for a non-empty pat: occurrences that do not overlap,
\* counted from the left, starting at the 1-based position from
RECURSIVE CountFrom(_, _, _)
CountFrom(text, pat, from) ==
    IF from + Len(pat) - 1 > Len(text) THEN 0
    ELSE IF OccursAt(text, pat, from)
         THEN 1 + CountFrom(text, pat, from + Len(pat))
         ELSE CountFrom(text, pat, from + 1)

count(text, pat) == CountFrom(text, pat, 1)

\* str.split(): the maximal runs of characters that are not whitespace
RECURSIVE SplitFrom(_, _, _)
SplitFrom(text, i, word) ==
    IF i > Len(text) THEN (IF word = <<>> THEN <<>> ELSE <<word>>)
    ELSE IF IsSpace(text[i])
         THEN (IF word = <<>> THEN <<>> ELSE <<word>>) \o SplitFrom(text, i + 1, <<>>)
         ELSE SplitFrom(text, i + 1, Append(word, text[i]))

split(text) == SplitFrom(text, 1, <<>>)

\* ' '.join(words)
RECURSIVE join_space(_)
join_space(words) ==
    IF words = <<>> THEN <<>>
    ELSE IF Len(words) = 1 THEN words[1]
    ELSE words[1] \o <<" ">> \o join_space(Tail(words))

\* re.search(r'\b' + re.escape(term) + r'\b', text) for a term that starts
\* and ends with a word character: an occurrence with no word character
\* right before it and none right after it
word_boundary_match(text, term) ==
    \E i \in 1..(Len(text) - Len(term) + 1) :
        /\ OccursAt(text, term, i)
        /\ (i = 1 \/ ~IsWordChar(text[i - 1]))
        /\ (i + Len(term) > Len(text) \/ ~IsWordChar(text[i + Len(term)]))

\* str(n) of an integer
RECURSIVE NatToChars(_)
NatToChars(n) ==
    IF n < 10 THEN <<DigitChars[n + 1]>>
    ELSE NatToChars(n \div 10) \o <<DigitChars[(n % 10) + 1]>>

IntToChars(n) == IF n < 0 THEN <<"-">> \o NatToChars(-n) ELSE NatToChars(n)

\* stop_words of _preprocess_query
stop_words == {
    <<"a">>, <<"a", "n">>, <<"t", "h", "e">>, <<"a", "n", "d">>,
    <<"o", "r">>, <<"b", "u", "t">>, <<"i", "s">>, <<"a", "r", "e">>,
    <<"w", "a", "s">>, <<"w", "e", "r", "e">>, <<"b", "e">>,
    <<"b", "e", "e", "n">>, <<"b", "e", "i", "n", "g">>, <<"i", "n">>,
    <<"o", "n">>, <<"a", "t">>, <<"t", "o">>, <<"f", "o", "r">>,
    <<"w", "i", "t", "h">>, <<"b", "y">>, <<"a", "b", "o", "u", "t">>,
    <<"a", "g", "a", "i", "n", "s", "t">>,
    <<"b", "e", "t", "w", "e", "e", "n">>, <<"i", "n", "t", "o">>,
    <<"t", "h", "r", "o", "u", "g", "h">>,
    <<"d", "u", "r", "i", "n", "g">>, <<"b", "e", "f", "o", "r", "e">>,
    <<"a", "f", "t", "e", "r">>, <<"a", "b", "o", "v", "e">>,
    <<"b", "e", "l", "o", "w">>, <<"f", "r", "o", "m">>, <<"u", "p">>,
    <<"d", "o", "w", "n">>, <<"o", "u", "t">>, <<"o", "f", "f">>,
    <<"o", "v", "e", "r">>, <<"u", "n", "d", "e", "r">>,
    <<"a", "g", "a", "i", "n">>, <<"f", "u", "r", "t", "h", "e", "r">>,
    <<"t", "h", "e", "n">>, <<"o", "n", "c", "e">>, <<"h", "e", "r", "e">>,
    <<"t", "h", "e", "r", "e">>, <<"w", "h", "e", "n">>,
    <<"w", "h", "e", "r", "e">>, <<"w", "h", "y">>, <<"h", "o", "w">>,
    <<"a", "l", "l">>, <<"a", "n", "y">>, <<"b", "o", "t", "h">>,
    <<"e", "a", "c", "h">>, <<"f", "e", "w">>, <<"m", "o", "r", "e">>,
    <<"m", "o", "s", "t">>, <<"o", "t", "h", "e", "r">>,
    <<"s", "o", "m", "e">>, <<"s", "u", "c", "h">>, <<"n", "o">>,
    <<"n", "o", "r">>, <<"n", "o", "t">>, <<"o", "n", "l", "y">>,
    <<"o", "w", "n">>, <<"s", "a", "m", "e">>, <<"s", "o">>,
    <<"t", "h", "a", "n">>, <<"t", "o", "o">>, <<"v", "e", "r", "y">>,
    <<"s">>, <<"t">>, <<"c", "a", "n">>, <<"w", "i", "l", "l">>,
    <<"j", "u", "s", "t">>, <<"d", "o", "n">>,
    <<"s", "h", "o", "u", "l", "d">>, <<"n", "o", "w">>, <<"i">>,
    <<"m", "e">>, <<"m", "y">>, <<"m", "y", "s", "e", "l", "f">>,
    <<"w", "e">>, <<"o", "u", "r">>, <<"o", "u", "r", "s">>,
    <<"o", "u", "r", "s", "e", "l", "v", "e", "s">>, <<"y", "o", "u">>,
    <<"y", "o", "u", "r">>, <<"y", "o", "u", "r", "s">>}

\* important_terms of _preprocess_query, in the order of the list
important_terms == <<
    <<"f", "e", "e">>, <<"d", "u", "e">>, <<"p", "a", "y">>,
    <<"g", "p", "a">>, <<"j", "o", "b">>, <<"t", "a", "x">>,
    <<"a", "i", "d">>, <<"l", "a", "b">>, <<"w", "e", "b">>>>

\* intent_patterns of _classify_query_intent, in the order of the dict
intent_patterns == <<
    [intent |-> "procedural", patterns |-> <<
        <<"h", "o", "w", " ", "t", "o">>,
        <<"h", "o", "w", " ", "d", "o", " ", "i">>,
        <<"p", "r", "o", "c", "e", "s", "s">>, <<"s", "t", "e", "p", "s">>,
        <<"p", "r", "o", "c", "e", "d", "u", "r", "e">>,
        <<"g", "u", "i", "d", "e">>,
        <<"i", "n", "s", "t", "r", "u", "c", "t", "i", "o", "n", "s">>>>],
    [intent |-> "informational", patterns |-> <<
        <<"w", "h", "a", "t", " ", "i", "s">>,
        <<"w", "h", "a", "t", " ", "a", "r", "e">>,
        <<"w", "h", "o", " ", "i", "s">>,
        <<"e", "x", "p", "l", "a", "i", "n">>,
        <<"d", "e", "s", "c", "r", "i", "b", "e">>,
        <<"t", "e", "l", "l", " ", "m", "e", " ", "a", "b", "o", "u", "t">>>>],
    [intent |-> "comparison", patterns |-> <<
        <<"c", "o", "m", "p", "a", "r", "e">>,
        <<"d", "i", "f", "f", "e", "r", "e", "n", "c", "e">>,
        <<"v", "e", "r", "s", "u", "s">>, <<"v", "s">>,
        <<"b", "e", "t", "t", "e", "r">>,
        <<"b", "e", "t", "w", "e", "e", "n">>>>],
    [intent |-> "deadline", patterns |-> <<
        <<"w", "h", "e", "n">>, <<"d", "a", "t", "e">>,
        <<"d", "e", "a", "d", "l", "i", "n", "e">>, <<"d", "u", "e">>,
        <<"s", "c", "h", "e", "d", "u", "l", "e">>,
        <<"c", "a", "l", "e", "n", "d", "a", "r">>,
        <<"t", "i", "m", "e", "l", "i", "n", "e">>>>],
    [intent |-> "location", patterns |-> <<
        <<"w", "h", "e", "r", "e">>,
        <<"l", "o", "c", "a", "t", "i", "o", "n">>,
        <<"p", "l", "a", "c", "e">>,
        <<"b", "u", "i", "l", "d", "i", "n", "g">>, <<"r", "o", "o", "m">>,
        <<"c", "a", "m", "p", "u", "s">>>>],
    [intent |-> "contact", patterns |-> <<
        <<"c", "o", "n", "t", "a", "c", "t">>, <<"e", "m", "a", "i", "l">>,
        <<"p", "h", "o", "n", "e">>, <<"r", "e", "a", "c", "h">>,
        <<"s", "p", "e", "a", "k">>, <<"c", "a", "l", "l">>>>],
    [intent |-> "requirement", patterns |-> <<
        <<"r", "e", "q", "u", "i", "r", "e">>, <<"n", "e", "e", "d">>,
        <<"n", "e", "c", "e", "s", "s", "a", "r", "y">>,
        <<"m", "u", "s", "t", " ", "h", "a", "v", "e">>,
        <<"s", "h", "o", "u", "l", "d">>,
        <<"m", "a", "n", "d", "a", "t", "o", "r", "y">>>>]>>

\* topics of _extract_query_topics, in the order of the dict
topics == <<
    [topic |-> "academic", keywords |-> <<
        <<"c", "o", "u", "r", "s", "e">>, <<"c", "l", "a", "s", "s">>,
        <<"d", "e", "g", "r", "e", "e">>, <<"m", "a", "j", "o", "r">>,
        <<"m", "i", "n", "o", "r">>, <<"s", "t", "u", "d", "y">>,
        <<"a", "c", "a", "d", "e", "m", "i", "c">>,
        <<"g", "r", "a", "d", "e">>, <<"c", "r", "e", "d", "i", "t">>,
        <<"t", "r", "a", "n", "s", "c", "r", "i", "p", "t">>>>],
    [topic |-> "admission", keywords |-> <<
        <<"a", "p", "p", "l", "y">>,
        <<"a", "d", "m", "i", "s", "s", "i", "o", "n">>,
        <<"a", "p", "p", "l", "i", "c", "a", "t", "i", "o", "n">>,
        <<"a", "c", "c", "e", "p", "t">>, <<"r", "e", "j", "e", "c", "t">>,
        <<"e", "n", "r", "o", "l", "l">>>>],
    [topic |-> "financial", keywords |-> <<
        <<"t", "u", "i", "t", "i", "o", "n">>, <<"f", "e", "e">>,
        <<"c", "o", "s", "t">>, <<"p", "a", "y", "m", "e", "n", "t">>,
        <<"f", "i", "n", "a", "n", "c", "i", "a", "l">>, <<"a", "i", "d">>,
        <<"s", "c", "h", "o", "l", "a", "r", "s", "h", "i", "p">>,
        <<"l", "o", "a", "n">>, <<"b", "u", "d", "g", "e", "t">>,
        <<"f", "u", "n", "d">>>>],
    [topic |-> "housing", keywords |-> <<
        <<"d", "o", "r", "m">>, <<"h", "o", "u", "s", "i", "n", "g">>,
        <<"r", "e", "s", "i", "d", "e", "n", "c", "e">>,
        <<"a", "p", "a", "r", "t", "m", "e", "n", "t">>,
        <<"l", "i", "v", "e">>, <<"r", "o", "o", "m", "m", "a", "t", "e">>,
        <<"a", "c", "c", "o", "m", "m", "o", "d", "a", "t", "i", "o", "n">>>>],
    [topic |-> "career", keywords |-> <<
        <<"j", "o", "b">>, <<"c", "a", "r", "e", "e", "r">>,
        <<"i", "n", "t", "e", "r", "n", "s", "h", "i", "p">>,
        <<"e", "m", "p", "l", "o", "y", "m", "e", "n", "t">>,
        <<"r", "e", "s", "u", "m", "e">>,
        <<"i", "n", "t", "e", "r", "v", "i", "e", "w">>,
        <<"h", "i", "r", "e">>, <<"c", "o", "m", "p", "a", "n", "y">>>>],
    [topic |-> "administrative", keywords |-> <<
        <<"o", "f", "f", "i", "c", "e">>, <<"s", "t", "a", "f", "f">>,
        <<"a", "d", "m", "i", "n", "i", "s", "t", "r", "a", "t", "i", "o", "n">>,
        <<"p", "o", "l", "i", "c", "y">>, <<"r", "u", "l", "e">>,
        <<"r", "e", "g", "u", "l", "a", "t", "i", "o", "n">>,
        <<"r", "e", "q", "u", "i", "r", "e", "m", "e", "n", "t">>>>],
    [topic |-> "student_life", keywords |-> <<
        <<"c", "l", "u", "b">>,
        <<"o", "r", "g", "a", "n", "i", "z", "a", "t", "i", "o", "n">>,
        <<"a", "c", "t", "i", "v", "i", "t", "y">>,
        <<"e", "v", "e", "n", "t">>, <<"s", "o", "c", "i", "a", "l">>,
        <<"c", "o", "m", "m", "u", "n", "i", "t", "y">>,
        <<"s", "t", "u", "d", "e", "n", "t", " ", "l", "i", "f", "e">>>>],
    [topic |-> "technology", keywords |-> <<
        <<"c", "o", "m", "p", "u", "t", "e", "r">>,
        <<"l", "a", "p", "t", "o", "p">>,
        <<"s", "o", "f", "t", "w", "a", "r", "e">>,
        <<"i", "n", "t", "e", "r", "n", "e", "t">>, <<"w", "i", "f", "i">>,
        <<"t", "e", "c", "h", "n", "o", "l", "o", "g", "y">>,
        <<"o", "n", "l", "i", "n", "e">>, <<"a", "c", "c", "e", "s", "s">>>>],
    [topic |-> "health", keywords |-> <<
        <<"h", "e", "a", "l", "t", "h">>,
        <<"m", "e", "d", "i", "c", "a", "l">>,
        <<"d", "o", "c", "t", "o", "r">>, <<"n", "u", "r", "s", "e">>,
        <<"c", "o", "u", "n", "s", "e", "l", "o", "r">>,
        <<"w", "e", "l", "l", "n", "e", "s", "s">>, <<"s", "i", "c", "k">>,
        <<"i", "l", "l", "n", "e", "s", "s">>>>],
    [topic |-> "international", keywords |-> <<
        <<"v", "i", "s", "a">>,
        <<"i", "n", "t", "e", "r", "n", "a", "t", "i", "o", "n", "a", "l">>,
        <<"c", "o", "u", "n", "t", "r", "y">>,
        <<"p", "a", "s", "s", "p", "o", "r", "t">>,
        <<"f", "o", "r", "e", "i", "g", "n">>>>]>>

\* category_topic_map of _calculate_category_relevance
category_topic_map == {
    [category |-> <<"a", "c", "a", "d", "e", "m", "i", "c", "_", "p", "o", "l", "i", "c", "i", "e", "s">>,
     topics |-> {"academic", "administrative"}],
    [category |-> <<"a", "c", "a", "d", "e", "m", "i", "c", "_", "p", "r", "o", "g", "r", "a", "m", "s">>,
     topics |-> {"academic"}],
    [category |-> <<"a", "d", "m", "i", "s", "s", "i", "o", "n", "s">>,
     topics |-> {"admission"}],
    [category |-> <<"c", "a", "m", "p", "u", "s", "_", "l", "i", "f", "e">>,
     topics |-> {"student_life", "housing"}],
    [category |-> <<"c", "a", "r", "e", "e", "r", "_", "s", "e", "r", "v", "i", "c", "e", "s">>,
     topics |-> {"career"}],
    [category |-> <<"f", "i", "n", "a", "n", "c", "i", "a", "l", "_", "i", "n", "f", "o", "r", "m", "a", "t", "i", "o", "n">>,
     topics |-> {"financial"}],
    [category |-> <<"s", "t", "u", "d", "e", "n", "t", "_", "r", "e", "s", "o", "u", "r", "c", "e", "s">>,
     topics |-> {"student_life", "academic", "technology", "health"}]}

\* type_intent_map of _is_type_relevant
type_intent_map == {
    [type |-> "link_response", intents |-> {"informational", "resource"}],
    [type |-> "table_response", intents |-> {"comparison", "informational"}],
    [type |-> "statistical_response", intents |-> {"informational", "comparison"}],
    [type |-> "date_response", intents |-> {"deadline", "procedural"}],
    [type |-> "procedural_response", intents |-> {"procedural", "how_to"}],
    [type |-> "long_response", intents |-> {"informational", "explanation"}],
    [type |-> "short_response", intents |-> {"general"}]}

(***************************************************************************)
(* BrainSearchEngine: query analysis and scoring                           *)
(***************************************************************************)
\* Scores are kept times ScoreScale = WeightScale * BonusScale: the field
\* weights 3, 1 and 0.5 are kept doubled, and so are the bonuses 5, 1 (per
\* occurrence), 2, 1 and 1.5 that they multiply.
ScoreScale == 2 * 2
\* weight=3, weight=1 and weight=0.5, doubled
QuestionWeight == 2 * 3
AnswerWeight == 2 * 1
MetadataWeight == 2 \div 2

\* _preprocess_query: the terms kept, then the important terms not yet kept
RECURSIVE AppendImportant(_, _)
AppendImportant(terms, words) ==
    IF words = <<>> THEN terms
    ELSE LET term == Head(words)
         IN  IF term \in Range(important_terms) /\ term \notin Range(terms)
             THEN AppendImportant(Append(terms, term), Tail(words))
             ELSE AppendImportant(terms, Tail(words))

MinTermLength == 2

_preprocess_query(query) ==
    LET q == strip_punctuation(lower(query))
        Keep(term) == term \notin stop_words /\ Len(term) > MinTermLength
        terms == SelectSeq(split(q), Keep)
    IN  AppendImportant(terms, split(q))

\* _classify_query_intent: the first intent one of whose patterns occurs
_classify_query_intent(query) ==
    LET query_lower == lower(query)
        Matches(i) == \E p \in Range(intent_patterns[i].patterns) : contains(query_lower, p)
    IN  IF \E i \in DOMAIN intent_patterns : Matches(i)
        THEN intent_patterns[CHOOSE i \in DOMAIN intent_patterns :
                                Matches(i) /\ \A j \in 1..(i - 1) : ~Matches(j)].intent
        ELSE "general"

\* _extract_query_topics: the topics one of whose keywords occurs, in the
\* order of the table; ['general'] when there is none
_extract_query_topics(query) ==
    LET query_lower == lower(query)
        Matches(t) == \E k \in Range(t.keywords) : contains(query_lower, k)
        matching == SelectSeq(topics, Matches)
    IN  IF matching # <<>> THEN [i \in 1..Len(matching) |-> matching[i].topic]
        ELSE <<"general">>

\* _calculate_text_match_score; weight is twice the weight of the code, the
\* bonuses are twice the bonuses of the code, the result is ScoreScale times
\* the result of the code
\* 5, 1 per occurrence (at most 3 occurrences count), 2, 1 and 1.5, doubled
PhraseBonus == 2 * 5
OccurrenceBonus == 2 * 1
FrequencyCap == 3
EarlyBonus == 2 * 2
MiddleBonus == 2 * 1
WordBonus == 2 + 1

\* A term score that gives nothing for the frequency of a term that occurs
\* more often than the cap
TermScoreDroppingFrequent(text, term, weight) ==
    IF contains(text, term)
    THEN LET term_count == count(text, term)
             position_idx == find(text, term)
         IN  (IF term_count <= FrequencyCap THEN term_count ELSE 0) * OccurrenceBonus * weight
             + (IF 5 * position_idx <= Len(text) THEN EarlyBonus * weight
                ELSE IF 2 * position_idx <= Len(text) THEN MiddleBonus * weight
                ELSE 0)
             + (IF word_boundary_match(text, term) THEN WordBonus * weight ELSE 0)
    ELSE 0

\* The body of the loop over query_terms for one term: frequency, position
\* of the first occurrence and whole-word match
TermScore(text, term, weight) ==
    IF contains(text, term)
    THEN LET term_count == count(text, term)
             position_idx == find(text, term)
         IN  Min(term_count, FrequencyCap) * OccurrenceBonus * weight
             \* position_idx <= len(text) * 0.2, elif <= len(text) * 0.5
             + (IF 5 * position_idx <= Len(text) THEN EarlyBonus * weight
                ELSE IF 2 * position_idx <= Len(text) THEN MiddleBonus * weight
                ELSE 0)
             + (IF word_boundary_match(text, term) THEN WordBonus * weight ELSE 0)
    ELSE 0

RECURSIVE SumTermScores(_, _, _)
SumTermScores(text, query_terms, weight) ==
    IF query_terms = <<>> THEN 0
    ELSE TermScore(text, Head(query_terms), weight)
         + SumTermScores(text, Tail(query_terms), weight)

_calculate_text_match_score(text, query_terms, weight) ==
    IF text = <<>> \/ query_terms = <<>> THEN 0
    ELSE (IF \A term \in Range(query_terms) : contains(text, term)
          THEN PhraseBonus * weight ELSE 0)
         + SumTermScores(text, query_terms, weight)

\* _calculate_category_relevance, times ScoreScale
CategoryWordPoints == 2
CategoryTopicPoints == 3

_calculate_category_relevance(category, query_terms, query_topics) ==
    LET category_words == split(replace(lower(category), "_", " "))
        common_terms == Range(category_words) \cap Range(query_terms)
        mapped == {m \in category_topic_map : m.category = category}
        matching_topics == UNION {m.topics : m \in mapped} \cap Range(query_topics)
    IN  ScoreScale * (Cardinality(common_terms) * CategoryWordPoints
                      + Cardinality(matching_topics) * CategoryTopicPoints)

\* _is_type_relevant
_is_type_relevant(entry_type, query_intent) ==
    \E m \in type_intent_map : m.type = entry_type /\ query_intent \in m.intents

(***************************************************************************)
(* Knowledge files and ALUBrainManager.load_brain                          *)
(*                                                                         *)
(* A knowledge file either fails to parse or is a JSON object with an      *)
(* optional category and optional entries; entries is a list or, in a      *)
(* malformed file, a number.  An entry is a record or, malformed, a bare   *)
(* string; its metadata is absent, a map or, malformed, a list.  Entries   *)
(* of the model carry no links / table / statistics / dates / steps.       *)
(***************************************************************************)
NoIntent == "<no intent key>"
NoMetadata == [kind |-> "absent", values |-> <<>>]
NoEntries == [kind |-> "absent", items |-> <<>>]

GOOD_FIN ==
    [parses |-> TRUE, category |-> <<"f", "i", "n", "a", "n", "c", "i", "a", "l", "_", "i", "n", "f", "o", "r", "m", "a", "t", "i", "o", "n">>,
     entries |-> [kind |-> "list", items |-> <<
        [kind |-> "record", id |-> "fin-1",
         question |-> <<"W", "h", "a", "t", " ", "i", "s", " ", "t", "h", "e", " ", "t", "u", "i", "t", "i", "o", "n", " ", "f", "e", "e", "?">>,
         answer |-> <<"T", "h", "e", " ", "f", "e", "e", " ", "i", "s", " ", "3", "0", "0", "0", " ", "U", "S", "D", ".">>,
         type |-> "short_response", intent |-> NoIntent,
         metadata |-> [kind |-> "map", values |-> <<<<"F", "i", "n", "a", "n", "c", "e", " ", "f", "e", "e", " ", "d", "e", "s", "k">>>>]],
        [kind |-> "record", id |-> "fin-2",
         question |-> <<"H", "o", "w", " ", "t", "o", " ", "p", "a", "y", " ", "t", "h", "e", " ", "f", "e", "e">>,
         answer |-> <<"P", "a", "y", " ", "o", "n", "l", "i", "n", "e", ".">>,
         type |-> "procedural_response", intent |-> "procedural",
         metadata |-> NoMetadata],
        [kind |-> "record", id |-> "fin-3",
         question |-> <<"W", "h", "a", "t", " ", "i", "s", " ", "t", "h", "e", " ", "t", "u", "i", "t", "i", "o", "n", " ", "f", "e", "e", "?">>,
         answer |-> <<"T", "h", "e", " ", "f", "e", "e", " ", "i", "s", " ", "3", "0", "0", "0", " ", "U", "S", "D", ".">>,
         type |-> "short_response", intent |-> NoIntent,
         metadata |-> [kind |-> "map", values |-> <<<<"F", "i", "n", "a", "n", "c", "e", " ", "f", "e", "e", " ", "d", "e", "s", "k">>>>]]>>]]

GOOD_ADM ==
    [parses |-> TRUE, category |-> <<"a", "d", "m", "i", "s", "s", "i", "o", "n", "s">>,
     entries |-> [kind |-> "list", items |-> <<
        [kind |-> "record", id |-> "adm-1",
         question |-> <<"W", "h", "e", "n", " ", "i", "s", " ", "t", "h", "e", " ", "d", "e", "a", "d", "l", "i", "n", "e", "?">>,
         answer |-> <<"A", "p", "p", "l", "y", " ", "b", "y", " ", "J", "u", "n", "e", ".">>,
         type |-> "date_response", intent |-> NoIntent,
         metadata |-> NoMetadata],
        [kind |-> "record", id |-> "adm-2",
         question |-> <<"C", "o", "f", "f", "e", "e">>,
         answer |-> <<"F", "r", "e", "e", " ", "c", "o", "f", "f", "e", "e", ".">>,
         type |-> "short_response", intent |-> NoIntent,
         metadata |-> NoMetadata],
        [kind |-> "record", id |-> "adm-3",
         question |-> <<"W", "h", "e", "n", " ", "i", "s", " ", "t", "h", "e", " ", "d", "e", "a", "d", "l", "i", "n", "e", "?">>,
         answer |-> <<"A", "p", "p", "l", "y", " ", "b", "y", " ", "J", "u", "n", "e", ".">>,
         type |-> "date_response", intent |-> NoIntent,
         metadata |-> NoMetadata],
        [kind |-> "record", id |-> "adm-4",
         question |-> <<>>,
         answer |-> <<>>,
         type |-> "short_response", intent |-> NoIntent,
         metadata |-> NoMetadata]>>]]

BAD_ENTRY ==
    [parses |-> TRUE, category |-> <<"c", "a", "m", "p", "u", "s", "_", "l", "i", "f", "e">>,
     entries |-> [kind |-> "list", items |-> <<
        [kind |-> "record", id |-> "cl-1",
         question |-> <<"W", "h", "e", "r", "e", " ", "i", "s", " ", "t", "h", "e", " ", "l", "a", "b", "?">>,
         answer |-> <<"I", "n", " ", "t", "h", "e", " ", "m", "a", "i", "n", " ", "b", "u", "i", "l", "d", "i", "n", "g", ".">>,
         type |-> "short_response", intent |-> NoIntent,
         metadata |-> NoMetadata],
        [kind |-> "string", id |-> "", question |-> <<>>, answer |-> <<>>, type |-> "text",
         intent |-> NoIntent, metadata |-> NoMetadata]>>]]

BAD_META ==
    [parses |-> TRUE, category |-> <<"c", "a", "r", "e", "e", "r", "_", "s", "e", "r", "v", "i", "c", "e", "s">>,
     entries |-> [kind |-> "list", items |-> <<
        [kind |-> "record", id |-> "cs-1",
         question |-> <<"H", "o", "w", " ", "t", "o", " ", "p", "a", "y", " ", "t", "h", "e", " ", "f", "e", "e">>,
         answer |-> <<"A", "s", "k", ".">>,
         type |-> "short_response", intent |-> NoIntent,
         metadata |-> [kind |-> "list", values |-> <<<<"f", "e", "e">>>>]]>>]]

NO_CATEGORY ==
    [parses |-> TRUE, category |-> <<>>,
     entries |-> [kind |-> "list", items |-> <<
        [kind |-> "record", id |-> "x-1",
         question |-> <<"f", "e", "e">>,
         answer |-> <<"f", "e", "e">>,
         type |-> "short_response", intent |-> NoIntent,
         metadata |-> NoMetadata]>>]]

NO_ENTRIES ==
    [parses |-> TRUE, category |-> <<"s", "t", "u", "d", "e", "n", "t", "_", "r", "e", "s", "o", "u", "r", "c", "e", "s">>,
     entries |-> NoEntries]

ENTRIES_NUMBER ==
    [parses |-> TRUE, category |-> <<"a", "c", "a", "d", "e", "m", "i", "c", "_", "p", "r", "o", "g", "r", "a", "m", "s">>,
     entries |-> [kind |-> "number", items |-> <<>>]]

INVALID_JSON ==
    [parses |-> FALSE, category |-> <<>>, entries |-> NoEntries]

BrainDirs == {
    <<>>,
    <<GOOD_FIN, GOOD_ADM>>,
    <<GOOD_ADM, INVALID_JSON, NO_CATEGORY, NO_ENTRIES>>,
    <<INVALID_JSON, NO_CATEGORY, NO_ENTRIES>>,
    <<GOOD_FIN, BAD_ENTRY>>,
    <<BAD_META>>,
    <<ENTRIES_NUMBER, GOOD_ADM>>}

Queries == {
    <<"f", "e", "e">>,
    <<"H", "o", "w", " ", "t", "o", " ", "p", "a", "y", " ", "t", "h", "e", " ", "F", "e", "e", "?">>,
    <<"z", "z", "z">>,
    <<"d", "e", "a", "d", "l", "i", "n", "e">>}

\* knowledge_base[category] = data: a dict keeps the position of a key that
\* is assigned again
DictSet(dict, key, value) ==
    IF \E i \in DOMAIN dict : dict[i].key = key
    THEN [i \in DOMAIN dict |-> IF dict[i].key = key
                                THEN [key |-> key, value |-> value] ELSE dict[i]]
    ELSE Append(dict, [key |-> key, value |-> value])

\* The body of the loop of load_brain for one file.  json.load raising, or
\* len(data['entries']) raising for entries that have no length, ends in
\* the except clause; the assignment to knowledge_base comes before the
\* len() call and stays.
load_file(kb, file) ==
    IF ~file.parses THEN kb
    ELSE IF file.category # <<>> /\ file.entries.kind # "absent"
         THEN DictSet(kb, file.category, file.entries)
         ELSE kb

RECURSIVE load_brain_from(_, _)
load_brain_from(kb, json_files) ==
    IF json_files = <<>> THEN kb
    ELSE load_brain_from(load_file(kb, Head(json_files)), Tail(json_files))

\* load_brain on a fresh manager (knowledge_base = {}); a missing directory
\* and a directory without JSON files both leave it empty
load_brain(json_files) == load_brain_from(<<>>, json_files)

(***************************************************************************)
(* BrainSearchEngine.search: the scoring loop                              *)
(***************************************************************************)
TypeMatchPoints == 2
IntentMatchPoints == 3
ExactMatchPoints == 10

\* A final score that leaves out the exact-match bonus of the score dict
score_entry_without_exact(entry, category_relevance, query, query_terms, query_intent) ==
    LET question == lower(entry.question)
        answer == lower(entry.answer)
        metadata_text == lower(join_space(entry.metadata.values))
        score ==
            [category_match |-> category_relevance,
             question_match |->
                 _calculate_text_match_score(question, query_terms, QuestionWeight),
             answer_match |->
                 _calculate_text_match_score(answer, query_terms, AnswerWeight),
             metadata_match |->
                 IF entry.metadata.kind # "absent"
                 THEN _calculate_text_match_score(metadata_text, query_terms, MetadataWeight)
                 ELSE 0,
             type_match |->
                 IF _is_type_relevant(entry.type, query_intent)
                 THEN ScoreScale * TypeMatchPoints ELSE 0,
             intent_match |->
                 IF entry.intent # NoIntent /\ entry.intent = query_intent
                 THEN ScoreScale * IntentMatchPoints ELSE 0,
             exact_match |->
                 IF question # <<>> /\ contains(question, lower(query))
                 THEN ScoreScale * ExactMatchPoints ELSE 0]
    IN  [entry |-> entry,
         score |-> score.category_match + score.question_match + score.answer_match
                   + score.metadata_match + score.type_match + score.intent_match,
         score_breakdown |-> score]

\* The score dict and final_score of one entry, times ScoreScale
score_entry(entry, category_relevance, query, query_terms, query_intent) ==
    LET question == lower(entry.question)
        answer == lower(entry.answer)
        metadata_text == lower(join_space(entry.metadata.values))
        score ==
            [category_match |-> category_relevance,
             question_match |->
                 _calculate_text_match_score(question, query_terms, QuestionWeight),
             answer_match |->
                 _calculate_text_match_score(answer, query_terms, AnswerWeight),
             metadata_match |->
                 IF entry.metadata.kind # "absent"
                 THEN _calculate_text_match_score(metadata_text, query_terms, MetadataWeight)
                 ELSE 0,
             type_match |->
                 IF _is_type_relevant(entry.type, query_intent)
                 THEN ScoreScale * TypeMatchPoints ELSE 0,
             intent_match |->
                 IF entry.intent # NoIntent /\ entry.intent = query_intent
                 THEN ScoreScale * IntentMatchPoints ELSE 0,
             exact_match |->
                 IF question # <<>> /\ contains(question, lower(query))
                 THEN ScoreScale * ExactMatchPoints ELSE 0]
    IN  [entry |-> entry,
         score |-> score.category_match + score.question_match + score.answer_match
                   + score.metadata_match + score.type_match + score.intent_match
                   + score.exact_match,
         score_breakdown |-> score]

\* A loop that cannot cope with an empty knowledge base
scoring_raises_on_empty(kb) ==
    \/ kb = <<>>
    \/ \E c \in DOMAIN kb :
           \/ kb[c].value.kind # "list"
           \/ \E e \in DOMAIN kb[c].value.items :
                  \/ kb[c].value.items[e].kind # "record"
                  \/ kb[c].value.items[e].metadata.kind = "list"

\* The loop over the categories and their entries raises when it meets
\* entries that cannot be iterated (a number), an entry without .get (not
\* a record), or a metadata without .values() (not a map)
scoring_raises(kb) ==
    \E c \in DOMAIN kb :
        LET data == kb[c].value
        IN  \/ data.kind # "list"
            \/ \E e \in DOMAIN data.items :
                   \/ data.items[e].kind # "record"
                   \/ data.items[e].metadata.kind = "list"

\* A loop that also keeps the entries of final_score 0
RECURSIVE score_all_keeping_zero(_, _, _)
score_all_keeping_zero(kb, query, c) ==
    IF c > Len(kb) THEN <<>>
    ELSE LET category == kb[c].key
             query_terms == _preprocess_query(query)
             query_intent == _classify_query_intent(query)
             category_relevance ==
                 _calculate_category_relevance(category, query_terms,
                                               _extract_query_topics(query))
             items == kb[c].value.items
         IN  [e \in 1..Len(items) |->
                 LET r == score_entry(items[e], category_relevance,
                                      query, query_terms, query_intent)
                 IN  [entry |-> r.entry, category |-> category, score |-> r.score,
                      score_breakdown |-> r.score_breakdown]]
             \o score_all_keeping_zero(kb, query, c + 1)

\* results, in the order of the loop: the entries of final_score > 0
RECURSIVE score_all(_, _, _)
score_all(kb, query, c) ==
    IF c > Len(kb) THEN <<>>
    ELSE LET category == kb[c].key
             query_terms == _preprocess_query(query)
             query_intent == _classify_query_intent(query)
             query_topics == _extract_query_topics(query)
             category_relevance ==
                 _calculate_category_relevance(category, query_terms, query_topics)
             items == kb[c].value.items
             scored == [e \in 1..Len(items) |->
                          LET r == score_entry(items[e], category_relevance,
                                               query, query_terms, query_intent)
                          IN  [entry |-> r.entry, category |-> category,
                               score |-> r.score,
                               score_breakdown |-> r.score_breakdown]]
         IN  SelectSeq(scored, LAMBDA r : r.score > 0)
             \o score_all(kb, query, c + 1)

\* seq[:n] of Python for any integer n
SliceTo(seq, n) ==
    IF n >= 0 THEN Take(seq, n)
    ELSE Take(seq, IF Len(seq) + n > 0 THEN Len(seq) + n ELSE 0)

\* What the loop gives for one query: it raises, or it leaves results
scoring_of(kb, query) ==
    IF scoring_raises(kb) THEN [raises |-> TRUE, results |-> <<>>]
    ELSE [raises |-> FALSE, results |-> score_all(kb, query, 1)]

\* results.sort(key=lambda x: x['score'], reverse=True); results[:top_k]
top_results_of(results, top_k) ==
    LetIn([i \in 1..Len(results) |-> results[i].score], LAMBDA key :
        SliceTo(SortDesc(results, key), top_k))

(***************************************************************************)
(* Documents.  A Document carries text, metadata and an optional score;    *)
(* the merger reads x.score of a vector result (None counts as 0) and      *)
(* metadata['score'] of a brain result.  origin and id stand for the text. *)
(***************************************************************************)
Doc(origin, id, score) ==
    [origin |-> origin, id |-> id, hasScore |-> TRUE, score |-> score]

DocNoScore(origin, id) ==
    [origin |-> origin, id |-> id, hasScore |-> FALSE, score |-> 0]

\* The texts of the chunks of the vector store and of the structured
\* results handed to the merger
ChunkIds ==
    <<"v1", "v2", "v3", "v4", "v5", "v6", "v7", "v8", "v9", "v10", "v11", "v12",
      "v13", "v14", "v15", "v16">>

BrainIds ==
    <<"b1", "b2", "b3", "b4", "b5", "b6", "b7", "b8", "b9", "b10", "b11", "b12",
      "b13", "b14", "b15", "b16">>

\* key=lambda x: x.score if x.score is not None else 0
VectorKey(d) == IF d.hasScore THEN d.score ELSE 0

\* key=lambda x: x.metadata.get('score', 0)
BrainKey(d) == IF d.hasScore THEN d.score ELSE 0

(***************************************************************************)
(* ExtendedRetrievalEngine._merge_results                                  *)
(***************************************************************************)
MergeCap == 10
RemainingLimit == 8
TopBrainIndex == 1
InterleaveStart == 2
InterleaveStep == 2

\* for doc in remaining: insert at i and i += 2 while i is inside the
\* list, else append (i is then left alone)
RECURSIVE Interleave(_, _, _)
Interleave(all_results, remaining, i) ==
    IF remaining = <<>> THEN all_results
    ELSE IF i < Len(all_results)
         THEN LetIn(ListInsert(all_results, i, Head(remaining)), LAMBDA inserted :
                  Interleave(inserted, Tail(remaining), i + InterleaveStep))
         ELSE LetIn(Append(all_results, Head(remaining)), LAMBDA appended :
                  Interleave(appended, Tail(remaining), i))

\* The result of the call: the returned list, and the two argument lists as
\* the call leaves them (both are sorted in place, brain_results is popped).
_merge_results(v, s) ==
    LetIn(v, LAMBDA all_results :
        IF s = <<>> THEN
            [ret |-> all_results, vector_after |-> v, brain_after |-> s]
        ELSE IF v = <<>> THEN
            [ret |-> s, vector_after |-> v, brain_after |-> s]
        ELSE
            LetIn(SortDesc(v, [k \in 1..Len(v) |-> VectorKey(v[k])]), LAMBDA vsorted :
            LetIn(SortDesc(s, [k \in 1..Len(s) |-> BrainKey(s[k])]), LAMBDA bsorted :
            LetIn(Head(bsorted), LAMBDA top_brain :
            LetIn(IF Len(all_results) >= 1
                  THEN ListInsert(all_results, TopBrainIndex, top_brain)
                  ELSE Append(all_results, top_brain), LAMBDA with_top :
            LetIn(Take(Tail(bsorted), RemainingLimit), LAMBDA remaining :
            LetIn(Interleave(with_top, remaining, InterleaveStart), LAMBDA interleaved :
                [ret |-> Take(interleaved, MergeCap),
                 vector_after |-> vsorted,
                 brain_after |-> Drop(Tail(bsorted), RemainingLimit)])))))))

(***************************************************************************)
(* The TTL caches.  A cache is a dict from a key to a timestamped value;   *)
(* a lookup result is None or the cached list.                             *)
(***************************************************************************)
CacheTTL == 300
SearchCleanThreshold == 100

None == [none |-> TRUE, value |-> <<>>]
Some(value) == [none |-> FALSE, value |-> value]

\* `if cached_result:` - None and the empty list are both falsy
Truthy(r) == ~r.none /\ r.value # <<>>

\* A lookup that still serves an entry whose age equals the TTL
get_ttl_inclusive(cache, key, t) ==
    IF key \in DOMAIN cache /\ t - cache[key].timestamp <= CacheTTL
    THEN Some(cache[key].value)
    ELSE None

\* BrainSearchEngine._get_from_cache and
\* ExtendedRetrievalEngine._get_from_cache, at time t
_get_from_cache(cache, key, t) ==
    IF key \in DOMAIN cache /\ t - cache[key].timestamp < CacheTTL
    THEN Some(cache[key].value)
    ELSE None

\* the entries that are not expired at time t (expired: age > ttl)
Unexpired(cache, t) ==
    LET keep == {k \in DOMAIN cache : ~(t - cache[k].timestamp > CacheTTL)}
    IN  [k \in keep |-> cache[k]]

CachePut(cache, key, value, t) ==
    [k \in DOMAIN cache \cup {key} |->
        IF k = key THEN [timestamp |-> t, value |-> value] ELSE cache[k]]

\* A clean-up that waits for one entry more
search_clean_cache_late(cache, t) ==
    IF Cardinality(DOMAIN cache) > SearchCleanThreshold + 1
    THEN Unexpired(cache, t) ELSE cache

\* BrainSearchEngine._clean_cache: only when the cache is large
search_clean_cache(cache, t) ==
    IF Cardinality(DOMAIN cache) > SearchCleanThreshold
    THEN Unexpired(cache, t) ELSE cache

\* BrainSearchEngine._store_in_cache
search_store_in_cache(cache, key, results, t) ==
    search_clean_cache(CachePut(cache, key, results, t), t)

\* ExtendedRetrievalEngine._clean_cache: at every store
facade_clean_cache(cache, t) == Unexpired(cache, t)

\* ExtendedRetrievalEngine._store_in_cache
facade_store_in_cache(cache, key, data, t) ==
    facade_clean_cache(CachePut(cache, key, data, t), t)

(***************************************************************************)
(* BrainSearchEngine.search as one call at time t on the engine state      *)
(* (cache, stats).  The call returns or raises; what it leaves behind is   *)
(* in cache and stats either way.                                          *)
(***************************************************************************)
\* cache_key = f"{query}:{top_k}"
search_cache_key(query, top_k) == query \o <<":">> \o IntToChars(top_k)

\* A search that returns a cached result without counting the hit
search_hit_uncounted(cache, stats, scoring, query, top_k, t) ==
    LetIn([stats EXCEPT !.total_searches = @ + 1], LAMBDA counted :
    LetIn(search_cache_key(query, top_k), LAMBDA cache_key :
    LetIn(_get_from_cache(cache, cache_key, t), LAMBDA cached_result :
        IF Truthy(cached_result) THEN
            [raised |-> FALSE, ret |-> cached_result.value, from_cache |-> TRUE,
             cache |-> cache, stats |-> counted]
        ELSE IF scoring.raises THEN
            [raised |-> TRUE, ret |-> <<>>, from_cache |-> FALSE,
             cache |-> cache, stats |-> counted]
        ELSE
            LetIn(top_results_of(scoring.results, top_k), LAMBDA top_results :
                [raised |-> FALSE, ret |-> top_results, from_cache |-> FALSE,
                 cache |-> search_store_in_cache(cache, cache_key, top_results, t),
                 stats |-> [counted EXCEPT !.processing_time = Append(@, 0)]]))))

\* scoring is what the loop gives for this query on the knowledge base
search(cache, stats, scoring, query, top_k, t) ==
    LetIn([stats EXCEPT !.total_searches = @ + 1], LAMBDA counted :
    LetIn(search_cache_key(query, top_k), LAMBDA cache_key :
    LetIn(_get_from_cache(cache, cache_key, t), LAMBDA cached_result :
        IF Truthy(cached_result) THEN
            [raised |-> FALSE, ret |-> cached_result.value, from_cache |-> TRUE,
             cache |-> cache,
             stats |-> [counted EXCEPT !.cache_hits = @ + 1]]
        ELSE IF scoring.raises THEN
            [raised |-> TRUE, ret |-> <<>>, from_cache |-> FALSE,
             cache |-> cache, stats |-> counted]
        ELSE
            LetIn(top_results_of(scoring.results, top_k), LAMBDA top_results :
                [raised |-> FALSE, ret |-> top_results, from_cache |-> FALSE,
                 cache |-> search_store_in_cache(cache, cache_key, top_results, t),
                 \* end_time - start_time: no time passes inside the call
                 stats |-> [counted EXCEPT !.processing_time = Append(@, 0)]]))))

(***************************************************************************)
(* RetrievalEngine.retrieve_context: the vector similarity query.  The     *)
(* collaborator answers with up to top_k chunks, nearest first, with or    *)
(* without distances, or fails; a failure is caught and gives [].          *)
(***************************************************************************)
VectorDocs(n, with_distances) ==
    [i \in 1..n |-> IF with_distances THEN Doc("vector", ChunkIds[i], i)
                    ELSE DocNoScore("vector", ChunkIds[i])]

base_retrieve_context(outcome, top_k) ==
    IF outcome.fails THEN <<>>
    ELSE VectorDocs(Min(outcome.available, IF top_k > 0 THEN top_k ELSE 0),
                    outcome.with_distances)

(***************************************************************************)
(* ExtendedRetrievalEngine.retrieve_context                                *)
(***************************************************************************)
BrainTopK == 5

\* cache_key = f"{query}:{role}"
facade_cache_key(query, role) == query \o <<":">> \o role

\* the Document made of one search result: its score goes to the metadata
brain_document(result) == Doc("brain", result.entry.id, result.score)

retrieve_context(facade_cache, cache, stats, scoring, query, role, top_k, outcome, t) ==
    LetIn(facade_cache_key(query, role), LAMBDA cache_key :
    LetIn(_get_from_cache(facade_cache, cache_key, t), LAMBDA cached_result :
        IF Truthy(cached_result) THEN
            [raised |-> FALSE, ret |-> cached_result.value, from_cache |-> TRUE,
             asked_vector |-> FALSE, merger_called |-> FALSE,
             vector_in |-> <<>>, brain_in |-> <<>>,
             facade_cache |-> facade_cache, cache |-> cache, stats |-> stats]
        ELSE
            LetIn(base_retrieve_context(outcome, top_k), LAMBDA vector_results :
            LetIn(search(cache, stats, scoring, query, BrainTopK, t), LAMBDA brain :
                IF brain.raised THEN
                    [raised |-> TRUE, ret |-> <<>>, from_cache |-> FALSE,
                     asked_vector |-> TRUE, merger_called |-> FALSE,
                     vector_in |-> <<>>, brain_in |-> <<>>,
                     facade_cache |-> facade_cache,
                     cache |-> brain.cache, stats |-> brain.stats]
                ELSE
                    LetIn([i \in 1..Len(brain.ret) |-> brain_document(brain.ret[i])],
                          LAMBDA brain_documents :
                    LetIn(_merge_results(vector_results, brain_documents).ret,
                          LAMBDA merged_results :
                        [raised |-> FALSE, ret |-> merged_results, from_cache |-> FALSE,
                         asked_vector |-> TRUE, merger_called |-> TRUE,
                         vector_in |-> vector_results, brain_in |-> brain_documents,
                         facade_cache |->
                             facade_store_in_cache(facade_cache, cache_key,
                                                   merged_results, t),
                         cache |-> brain.cache, stats |-> brain.stats]))))))

(***************************************************************************)
(* The engine as a state machine.  Calls are sequential: each call runs to *)
(* its end at one instant of the clock.                                    *)
(***************************************************************************)
MaxNow == 450
MaxSearches == 2
MaxShortLen == 2
MaxVectorLen == 12
MaxBrainLen == 11

TickSteps == {150}
TopKs == {0, 2, 5}
FacadeTopKs == {5, 11}
FacadeQueries == {<<"f", "e", "e">>, <<"z", "z", "z">>}
Roles == {<<"s", "t", "u", "d", "e", "n", "t">>}
VectorOutcomes ==
    {[fails |-> TRUE, available |-> 0, with_distances |-> FALSE]}
    \cup [fails : {FALSE}, available : {3, 11}, with_distances : {TRUE}]

NoCall == [op |-> "none"]

\* What a lookup at time t finds: whether the key is in the dict, the age
\* of its entry, and what _get_from_cache returns
Lookup(name, cache, key, t) ==
    [cache |-> name, key |-> key,
     found |-> key \in DOMAIN cache,
     age |-> IF key \in DOMAIN cache THEN t - cache[key].timestamp ELSE 0,
     returned |-> _get_from_cache(cache, key, t)]

EngineInit ==
    /\ brain_files \in BrainDirs
    /\ knowledge_base = load_brain(brain_files)
    /\ scoring_by_query = [query \in Queries |-> scoring_of(knowledge_base, query)]
    /\ now = 0
    /\ _search_cache = <<>>
    /\ _search_stats = [total_searches |-> 0, cache_hits |-> 0, processing_time |-> <<>>]
    /\ _cache = <<>>
    /\ last = NoCall

MergeIdle ==
    /\ arg_vector_results = <<>>
    /\ arg_brain_results = <<>>
    /\ merge_args = [v |-> <<>>, s |-> <<>>]
    /\ merge_ret = <<>>
    /\ merge_pc = "idle"

ChunkIdle ==
    /\ chunk_text = <<>>
    /\ chunk_size = 1
    /\ chunk_overlap = 0
    /\ start = 0
    /\ chunks = <<>>
    /\ chunk_pc = "idle"

ScoreIdle ==
    /\ score_args = <<>>
    /\ score_ret = <<>>
    /\ score_pc = "idle"

ThreadsIdle ==
    /\ thread_pc = <<>>
    /\ thread_call = <<>>
    /\ thread_reg = <<>>
    /\ thread_ret = <<>>

DocsIdle ==
    /\ metadata_file = {}
    /\ text_files = {}
    /\ collection = {}
    /\ doc_chunks = 0
    /\ upload_pc = "idle"
    /\ task_pc = "idle"
    /\ task_chunks = {}
    /\ delete_pc = "idle"
    /\ delete_ids = {}
    /\ deletes = 0

PutIdle ==
    /\ put_cache = <<>>
    /\ put_before = <<>>
    /\ put_call = <<>>
    /\ put_now = 0
    /\ put_count = 0

ConvIdle ==
    /\ conversations = <<>>
    /\ user_conversations = <<>>
    /\ conv_ids = 0
    /\ conv_clock = 0
    /\ conv_messages = 0
    /\ conv_requests = 0

\* The parts of the program a specification does not exercise
Idle(parts) ==
    /\ "merge" \in parts => MergeIdle
    /\ "chunk" \in parts => ChunkIdle
    /\ "score" \in parts => ScoreIdle
    /\ "threads" \in parts => ThreadsIdle
    /\ "docs" \in parts => DocsIdle
    /\ "put" \in parts => PutIdle
    /\ "conv" \in parts => ConvIdle

\* time.time() advances between calls
Tick(d) ==
    /\ now + d <= MaxNow
    /\ now' = now + d
    /\ UNCHANGED <<brain_files, knowledge_base, scoring_by_query, _search_cache, _search_stats, _cache, last>>
    /\ UNCHANGED outsideEngine

\* ALUBrainManager.search(query, top_k)
Search(query, top_k) ==
    /\ _search_stats.total_searches < MaxSearches
    /\ \E r \in {search(_search_cache, _search_stats, scoring_by_query[query], query, top_k, now)} :
           /\ _search_cache' = r.cache
           /\ _search_stats' = r.stats
           /\ last' = [op |-> "search", query |-> query, top_k |-> top_k, time |-> now,
                       raised |-> r.raised, ret |-> r.ret, from_cache |-> r.from_cache,
                       lookups |-> <<Lookup("search", _search_cache,
                                            search_cache_key(query, top_k), now)>>]
    /\ UNCHANGED <<brain_files, knowledge_base, scoring_by_query, now, _cache>>
    /\ UNCHANGED outsideEngine

\* ExtendedRetrievalEngine.retrieve_context(query, role, top_k=top_k), with
\* the answer of the vector collaborator for this call
RetrieveContext(query, role, top_k, outcome) ==
    /\ _search_stats.total_searches < MaxSearches
    /\ \E r \in {retrieve_context(_cache, _search_cache, _search_stats, scoring_by_query[query],
                                    query, role, top_k, outcome, now)} :
           /\ _cache' = r.facade_cache
           /\ _search_cache' = r.cache
           /\ _search_stats' = r.stats
           /\ last' = [op |-> "retrieve_context", query |-> query, role |-> role,
                       top_k |-> top_k, time |-> now,
                       raised |-> r.raised, ret |-> r.ret, from_cache |-> r.from_cache,
                       vector_failed |-> r.asked_vector /\ outcome.fails,
                       merger_called |-> r.merger_called,
                       vector_in |-> r.vector_in, brain_in |-> r.brain_in,
                       lookups |->
                           <<Lookup("facade", _cache, facade_cache_key(query, role), now)>>
                           \o (IF r.asked_vector
                               THEN <<Lookup("search", _search_cache,
                                             search_cache_key(query, BrainTopK), now)>>
                               ELSE <<>>)]
    /\ UNCHANGED <<brain_files, knowledge_base, scoring_by_query, now>>
    /\ UNCHANGED outsideEngine

Init == EngineInit /\ Idle({"put", "conv", "merge", "chunk", "score", "threads", "docs"})

Next ==
    \/ \E d \in TickSteps : Tick(d)
    \/ \E query \in FacadeQueries, role \in Roles, top_k \in FacadeTopKs,
          outcome \in VectorOutcomes :
            RetrieveContext(query, role, top_k, outcome)

Spec == Init /\ [][Next]_vars

NextSearch ==
    \/ \E d \in TickSteps : Tick(d)
    \/ \E query \in Queries, top_k \in TopKs : Search(query, top_k)

SpecSearch == Init /\ [][NextSearch]_vars

(***************************************************************************)
(* The merger on its own: _merge_results(vector_results, brain_results) is *)
(* called on two lists the caller built.  The lists are all the short ones *)
(* (scores absent, 1 or 2 at each place), long ones with descending,       *)
(* ascending or equal scores, and the lists of the worked scenario         *)
(* A 0.9, B 0.8, C 0.7 with X 5.0, Y 3.0 (scores times 10).                *)
(***************************************************************************)
ShortScores == {"none", "low", "high"}

ShortDoc(origin, id, choice) ==
    IF choice = "none" THEN DocNoScore(origin, id)
    ELSE Doc(origin, id, IF choice = "low" THEN 1 ELSE 2)

ShortLists(origin, ids) ==
    UNION {{[i \in 1..n |-> ShortDoc(origin, ids[i], choices[i])] :
              choices \in [1..n -> ShortScores]} : n \in 0..MaxShortLen}

LongPatterns == {"descending", "ascending", "equal"}

LongList(origin, ids, n, pattern) ==
    [i \in 1..n |-> Doc(origin, ids[i],
                        IF pattern = "descending" THEN n + 1 - i
                        ELSE IF pattern = "ascending" THEN i ELSE 1)]

LongLists(origin, ids, max) ==
    {LongList(origin, ids, n, pattern) : n \in 0..max, pattern \in LongPatterns}

ScenarioVector == <<Doc("vector", "A", 9), Doc("vector", "B", 8), Doc("vector", "C", 7)>>
ScenarioBrain == <<Doc("brain", "X", 50), Doc("brain", "Y", 30)>>

MergeInputs ==
    (ShortLists("vector", ChunkIds) \X ShortLists("brain", BrainIds))
    \cup (LongLists("vector", ChunkIds, MaxVectorLen) \X LongLists("brain", BrainIds, MaxBrainLen))
    \cup {<<ScenarioVector, ScenarioBrain>>}

\* The engine is built on an empty data directory and left alone
EngineIdle ==
    /\ brain_files = <<>>
    /\ knowledge_base = load_brain(brain_files)
    /\ scoring_by_query = [query \in Queries |-> scoring_of(knowledge_base, query)]
    /\ now = 0
    /\ _search_cache = <<>>
    /\ _search_stats = [total_searches |-> 0, cache_hits |-> 0, processing_time |-> <<>>]
    /\ _cache = <<>>
    /\ last = NoCall

InitMerge ==
    /\ EngineIdle
    /\ Idle({"put", "conv", "chunk", "score", "threads", "docs"})
    /\ \E input \in MergeInputs :
           /\ arg_vector_results = input[1]
           /\ arg_brain_results = input[2]
           /\ merge_args = [v |-> input[1], s |-> input[2]]
    /\ merge_ret = <<>>
    /\ merge_pc = "input"

\* self._merge_results(vector_results, brain_results): the returned list,
\* and the two argument lists as the call leaves them (sorted in place)
MergeCall ==
    /\ merge_pc = "input"
    /\ \E r \in {_merge_results(arg_vector_results, arg_brain_results)} :
           /\ merge_ret' = r.ret
           /\ arg_vector_results' = r.vector_after
           /\ arg_brain_results' = r.brain_after
    /\ merge_pc' = "done"
    /\ UNCHANGED merge_args
    /\ UNCHANGED outsideMerge

NextMerge == MergeCall

SpecMerge == InitMerge /\ [][NextMerge]_vars

(***************************************************************************)
(* Properties of the merger, under SpecMerge                               *)
(***************************************************************************)
MergeDone == merge_pc = "done"

Ids(docs) == [i \in 1..Len(docs) |-> docs[i].id]

\* C1: the list _merge_results returns is never longer than 10 and never
\* longer than the two argument lists together, whatever their lengths,
\* also when one of them is empty and when the vector list alone is longer
\* than 10
C1_MergeLengthBound ==
    MergeDone =>
        Len(merge_ret) <= Min(MergeCap, Len(merge_args.v) + Len(merge_args.s))

\* C3: merging with an empty structured list returns the first 10 vector
\* results in their given order, and merging an empty vector list returns
\* the first 10 structured results in their given order
C3_MergeWithEmptySide ==
    MergeDone =>
        /\ merge_args.s = <<>> => merge_ret = Take(merge_args.v, MergeCap)
        /\ merge_args.v = <<>> => merge_ret = Take(merge_args.s, MergeCap)

ScenarioMerged ==
    /\ MergeDone
    /\ merge_args = [v |-> ScenarioVector, s |-> ScenarioBrain]

\* C4, as stated: merging A 0.9, B 0.8, C 0.7 with X 5.0, Y 3.0 returns
\* exactly A, X, B, Y, C
C4_ScenarioAlternates ==
    ScenarioMerged => Ids(merge_ret) = <<"A", "X", "B", "Y", "C">>

\* C4, as the merger computes it: merging A 0.9, B 0.8, C 0.7 with X 5.0,
\* Y 3.0 returns exactly A, X, Y, B, C: the best structured result X goes to
\* index 1 and the next one, Y, to index 2, before the vector result B
C4_ScenarioOrder ==
    ScenarioMerged => Ids(merge_ret) = <<"A", "X", "Y", "B", "C">>

C4_ScenarioReached ==
    /\ ScenarioMerged
    /\ Len(merge_ret) = Len(ScenarioVector) + Len(ScenarioBrain)

BothGiven == MergeDone /\ merge_args.v # <<>> /\ merge_args.s # <<>>

SortedDesc(docs, Key(_)) ==
    \A a \in 1..Len(docs), b \in 1..Len(docs) : a < b => Key(docs[a]) >= Key(docs[b])

Highest(docs, Key(_), d) ==
    /\ \E k \in 1..Len(docs) : docs[k] = d
    /\ \A k \in 1..Len(docs) : Key(d) >= Key(docs[k])

\* C19: when both argument lists are non-empty, in whatever order they are
\* given, both are sorted descending by score, element 0 of the returned
\* list is the highest-scoring vector result and element 1 the
\* highest-scoring structured result
C19_TopOfBothFirst ==
    BothGiven =>
        /\ SortedDesc(arg_vector_results, VectorKey)
        /\ SortedDesc(arg_brain_results, BrainKey)
        /\ Len(merge_ret) >= 2
        /\ Highest(merge_args.v, VectorKey, merge_ret[1])
        /\ Highest(merge_args.s, BrainKey, merge_ret[2])

\* The placement C20 describes: the k-th further structured result goes to
\* index 2 + 2k while that index is inside the list, and from the first one
\* whose index is outside the list all the rest are appended in order
RECURSIVE PlacedByIndex(_, _, _)
PlacedByIndex(all_results, remaining, k) ==
    IF remaining = <<>> THEN all_results
    ELSE IF InterleaveStart + InterleaveStep * k < Len(all_results)
         THEN PlacedByIndex(ListInsert(all_results, InterleaveStart + InterleaveStep * k,
                                       Head(remaining)),
                            Tail(remaining), k + 1)
         ELSE all_results \o remaining

BrainSorted == SortDesc(merge_args.s, [k \in 1..Len(merge_args.s) |-> BrainKey(merge_args.s[k])])

FromBrain(docs) == {k \in 1..Len(docs) : docs[k].origin = "brain"}

\* C20: after the top structured result is placed at index 1, at most 8
\* further structured results are used, in descending score order: the k-th
\* is inserted at index 2 + 2k while that index is inside the list, and from
\* the first one whose index is outside the list the rest are appended at the
\* end in order; at most 9 structured results appear in the merged list
C20_InterleaveThenAppend ==
    BothGiven =>
        /\ merge_ret = Take(PlacedByIndex(ListInsert(merge_args.v, TopBrainIndex, Head(BrainSorted)),
                                          Take(Tail(BrainSorted), RemainingLimit), 0),
                            MergeCap)
        /\ Cardinality(FromBrain(merge_ret)) <= RemainingLimit + 1

\* the documents of one origin in a list, in the order of the list
OfOrigin(docs, origin) == SelectSeq(docs, LAMBDA d : d.origin = origin)

\* small is big with elements left out: same relative order
RECURSIVE IsSubsequence(_, _)
IsSubsequence(small, big) ==
    IF small = <<>> THEN TRUE
    ELSE IF big = <<>> THEN FALSE
    ELSE IF Head(small) = Head(big) THEN IsSubsequence(Tail(small), Tail(big))
    ELSE IsSubsequence(small, Tail(big))

\* C27: the merged list is an order-preserving interleaving of its inputs:
\* every element of the output is an element of one input, no input element
\* appears twice, the vector results keep the relative order of the vector
\* input, and the structured results appear in descending score order
C27_OrderPreservingInterleaving ==
    MergeDone =>
        /\ \A i \in DOMAIN merge_ret :
               \/ \E k \in DOMAIN merge_args.v : merge_ret[i] = merge_args.v[k]
               \/ \E k \in DOMAIN merge_args.s : merge_ret[i] = merge_args.s[k]
        /\ \A i, j \in DOMAIN merge_ret : i # j => merge_ret[i].id # merge_ret[j].id
        /\ IsSubsequence(OfOrigin(merge_ret, "vector"), merge_args.v)
        /\ SortedDesc(OfOrigin(merge_ret, "brain"), BrainKey)

(***************************************************************************)
(* Properties of the search engine, under SpecSearch, and of the facade,   *)
(* under Spec.  last records the latest call: its arguments, what the two  *)
(* cache dicts held for its keys when it started, and its outcome.         *)
(***************************************************************************)
Searched == last.op = "search"

Retrieved == last.op = "retrieve_context"

\* C2: retrieve_context never returns more than 10 documents, whatever
\* top_k the caller asks for, whether the list is computed or cached
C2_FacadeAtMostTen ==
    (Retrieved /\ ~last.raised) => Len(last.ret) <= MergeCap

\* What a lookup must give: nothing for a missing key and for an entry of
\* age >= TTL, the stored value otherwise
LookupSound(lookup, cache) ==
    /\ (~lookup.found \/ lookup.age >= CacheTTL) => lookup.returned = None
    /\ (lookup.found /\ lookup.age < CacheTTL) =>
           lookup.returned = Some(cache[lookup.key].value)

CacheSound(name, cache) ==
    \A key \in DOMAIN cache : LookupSound(Lookup(name, cache, key, now), cache)

\* C5: in both caches a lookup never returns an entry whose age is 300
\* seconds or more: it returns absent for a missing key and for an entry of
\* age >= TTL, after any sequence of stores, lookups, clean-ups and clock
\* advances.  Checked on the lookups of every call, and on a lookup of each
\* stored key in every reachable state.
C5_NoExpiredEntryServed ==
    /\ CacheSound("search", _search_cache)
    /\ CacheSound("facade", _cache)
    /\ last.op # "none" =>
           \A i \in DOMAIN last.lookups :
               /\ ~last.lookups[i].found \/ last.lookups[i].age >= CacheTTL
                      => last.lookups[i].returned = None
               /\ last.lookups[i].returned # None
                      => last.lookups[i].found /\ last.lookups[i].age < CacheTTL
    /\ (last.op # "none" /\ last.from_cache) =>
           (last.lookups[1].found /\ last.lookups[1].age < CacheTTL)

\* a call looked up, in each of the two caches, an entry that was there
\* and had reached the TTL, and got nothing
C5_ExpiredInBothCaches ==
    /\ Retrieved
    /\ \A name \in {"search", "facade"} :
           \E i \in DOMAIN last.lookups :
               /\ last.lookups[i].cache = name
               /\ last.lookups[i].found
               /\ last.lookups[i].age >= CacheTTL
               /\ last.lookups[i].returned = None
    /\ \E i \in DOMAIN last.lookups : last.lookups[i].age = CacheTTL

\* C6: when search is called twice with the same (query, top_k) within the
\* TTL, the first call having computed its result (also an empty one), the
\* second call returns the same list, takes it from the cache, and adds
\* exactly one to cache_hits
C6_SecondSearchFromCache ==
    [][(/\ Searched
        /\ ~last.raised
        /\ ~last.from_cache
        /\ _search_stats'.total_searches = _search_stats.total_searches + 1
        /\ last'.query = last.query
        /\ last'.top_k = last.top_k
        /\ last'.time - last.time < CacheTTL)
       => (/\ ~last'.raised
           /\ last'.ret = last.ret
           /\ last'.from_cache
           /\ _search_stats'.cache_hits = _search_stats.cache_hits + 1)]_vars

\* The place of a result's entry in the iteration over the knowledge base:
\* the index of its category, then the index of the entry in the category
CategoryIndex(result) ==
    CHOOSE c \in DOMAIN knowledge_base : knowledge_base[c].key = result.category

EntryIndex(result) ==
    LET items == knowledge_base[CategoryIndex(result)].value.items
    IN  CHOOSE e \in DOMAIN items :
            /\ items[e] = result.entry
            /\ \A d \in DOMAIN items : items[d] = result.entry => e <= d

IteratedBefore(r1, r2) ==
    \/ CategoryIndex(r1) < CategoryIndex(r2)
    \/ /\ CategoryIndex(r1) = CategoryIndex(r2)
       /\ EntryIndex(r1) < EntryIndex(r2)

\* C7: search returns at most top_k results (top_k >= 0), in non-increasing
\* order of score, and results of equal score come in the order in which
\* the knowledge base is iterated
C7_TopKInScoreOrder ==
    (Searched /\ ~last.raised) =>
        /\ Len(last.ret) <= last.top_k
        /\ \A i, j \in DOMAIN last.ret :
               i < j =>
                   /\ last.ret[i].score >= last.ret[j].score
                   /\ last.ret[i].score = last.ret[j].score
                          => IteratedBefore(last.ret[i], last.ret[j])

\* a search cut its results to top_k, with two results of equal score kept
\* and a result of lower rank in the loop's order placed before another
C7_TiesAndCut ==
    /\ Searched
    /\ ~last.raised
    /\ ~last.from_cache
    /\ Len(last.ret) = last.top_k
    /\ Len(scoring_by_query[last.query].results) > last.top_k
    /\ \E i, j \in DOMAIN last.ret :
           i < j /\ last.ret[i].score = last.ret[j].score
    /\ \E i, j \in DOMAIN last.ret :
           i < j /\ IteratedBefore(last.ret[j], last.ret[i])

\* C8: on an empty knowledge base search returns the empty list and never
\* raises
C8_EmptyKnowledgeBase ==
    (Searched /\ knowledge_base = <<>>) => (~last.raised /\ last.ret = <<>>)

\* a second search on an empty knowledge base, files of the directory
\* having been skipped at load
C8_EmptySearched ==
    /\ Searched
    /\ knowledge_base = <<>>
    /\ brain_files # <<>>
    /\ _search_stats.total_searches = MaxSearches
    /\ last.ret = <<>>

\* a call of retrieve_context that computed and stored its result is
\* followed by a call for the same query and role that is served from the
\* cache
ServedFromPrevious ==
    /\ Retrieved
    /\ ~last.raised
    /\ ~last.from_cache
    /\ last'.op = "retrieve_context"
    /\ last'.from_cache
    /\ last'.query = last.query
    /\ last'.role = last.role

\* C25: the facade cache never serves a call a result that was computed for
\* different arguments: a retrieve_context(query, role, top_k) call that hits
\* the cache gets a result computed for the same query, role and top_k
C25_CacheHitSameArguments ==
    [][ServedFromPrevious => last'.top_k = last.top_k]_vars

\* C26: a degraded result does not outlive the failure that caused it: when
\* the vector collaborator failed during a retrieve_context call, the next
\* call for the same query and role, also within the TTL, is computed with
\* the vector results and is not the structured-only result of the failed
\* call
C26_DegradedNotServed ==
    [][(/\ Retrieved
        /\ ~last.raised
        /\ last.vector_failed
        /\ last'.op = "retrieve_context"
        /\ last' # last
        /\ last'.query = last.query
        /\ last'.role = last.role)
       => (~last'.from_cache /\ last'.merger_called)]_vars

\* C9: when the vector collaborator fails, the merger receives an empty
\* vector list, the call returns the merge of nothing with the structured
\* results, and no error reaches the caller
C9_VectorFailureAbsorbed ==
    (Retrieved /\ last.vector_failed) =>
        /\ ~last.raised
        /\ last.merger_called
        /\ last.vector_in = <<>>
        /\ last.ret = _merge_results(<<>>, last.brain_in).ret

Malformed(kb) ==
    \E c \in DOMAIN kb :
        \/ kb[c].value.kind # "list"
        \/ \E e \in DOMAIN kb[c].value.items :
               \/ kb[c].value.items[e].kind # "record"
               \/ kb[c].value.items[e].metadata.kind = "list"

\* C10: a query never raises: every failure is absorbed, and an entry of
\* the knowledge base that is not a record, or whose metadata is not a map,
\* has been skipped at load
C10_QueriesNeverRaise ==
    last.op # "none" => (~last.raised /\ ~Malformed(knowledge_base))

(***************************************************************************)
(* RetrievalEngine._chunk_text(text, chunk_size, chunk_overlap), one       *)
(* iteration of its while loop at a time.  Offsets are the 0-based         *)
(* offsets of the code; a slice text[a:b] is kept with the offsets it      *)
(* really covers.                                                          *)
(***************************************************************************)
Max(a, b) == IF a >= b THEN a ELSE b

\* An offset of a slice of a string of length n, as Python reads it: a
\* negative offset counts from the end, and all offsets are clamped
SliceIndex(i, n) == IF i < 0 THEN Max(i + n, 0) ELSE Min(i, n)

\* text[a:b], with the offsets lo, hi the slice covers (lo = hi when empty)
Slice(text, a, b) ==
    LET lo == SliceIndex(a, Len(text))
        hi == Max(SliceIndex(b, Len(text)), lo)
    IN  [lo |-> lo, hi |-> hi, text |-> SubSeq(text, lo + 1, hi)]

\* A search that also finds a pattern that starts inside text[a:b] and ends
\* after it
rfind_across_end(text, pat, a, b) ==
    LET lo == SliceIndex(a, Len(text))
        hi == SliceIndex(b, Len(text))
        hits == {i \in lo..(hi - 1) : i + Len(pat) <= Len(text) /\ OccursAt(text, pat, i + 1)}
    IN  IF hits = {} THEN -1 ELSE CHOOSE i \in hits : \A j \in hits : j <= i

\* text.rfind(pat, a, b): the highest 0-based offset of pat inside
\* text[a:b], or -1
rfind(text, pat, a, b) ==
    LET lo == SliceIndex(a, Len(text))
        hi == SliceIndex(b, Len(text))
        hits == {i \in lo..(hi - Len(pat)) : OccursAt(text, pat, i + 1)}
    IN  IF hits = {} THEN -1 ELSE CHOOSE i \in hits : \A j \in hits : j <= i

\* for break_point in ['\n\n', '\n', '. ', ' ']
break_points == <<<<"\n", "\n">>, <<"\n">>, <<".", " ">>, <<" ">>>>

\* The end of the chunk that starts at from: from + chunk_size clamped to
\* the text, moved back to just after the last break point of the first
\* kind found in the window when the text goes on
chunk_end(text, from, size) ==
    LET text_length == Len(text)
        end == Min(from + size, text_length)
        found == {b \in DOMAIN break_points : rfind(text, break_points[b], from, end) # -1}
    IN  IF end < text_length /\ found # {}
        THEN LET b == CHOOSE b \in found : \A c \in found : b <= c
             IN  rfind(text, break_points[b], from, end) + Len(break_points[b])
        ELSE end

\* A step that always leaves chunk_overlap + 1 characters to the next chunk
next_start_one_back(end, overlap, text_length) ==
    IF end < text_length THEN end - overlap - 1 ELSE end

\* start = end - chunk_overlap if end < text_length else end
next_start(end, overlap, text_length) ==
    IF end < text_length THEN end - overlap ELSE end

MaxTextLen == 4
MaxChunkSize == 3
MaxChunks == 5

TextChars == {"a", " ", ".", "\n"}
Texts == UNION {[1..n -> TextChars] : n \in 0..MaxTextLen}

InitChunk ==
    /\ EngineIdle
    /\ Idle({"put", "conv", "merge", "score", "threads", "docs"})
    /\ chunk_text \in Texts
    /\ chunk_size \in 1..MaxChunkSize
    /\ chunk_overlap \in 0..MaxChunkSize
    /\ start = 0
    /\ chunks = <<>>
    /\ chunk_pc = "called"

\* if not text: return []; otherwise chunks = [], start = 0
ChunkCall ==
    /\ chunk_pc = "called"
    /\ chunk_pc' = IF chunk_text = <<>> THEN "returned" ELSE "loop"
    /\ UNCHANGED <<chunk_text, chunk_size, chunk_overlap, start, chunks>>
    /\ UNCHANGED outsideChunk

\* one iteration of `while start < text_length`
ChunkStep ==
    /\ chunk_pc = "loop"
    /\ start < Len(chunk_text)
    /\ Len(chunks) < MaxChunks
    /\ \E end \in {chunk_end(chunk_text, start, chunk_size)} :
           /\ chunks' = Append(chunks, [start |-> start, end |-> end,
                                        slice |-> Slice(chunk_text, start, end)])
           /\ start' = next_start(end, chunk_overlap, Len(chunk_text))
    /\ UNCHANGED <<chunk_text, chunk_size, chunk_overlap, chunk_pc>>
    /\ UNCHANGED outsideChunk

\* the loop condition fails: return chunks
ChunkReturn ==
    /\ chunk_pc = "loop"
    /\ ~(start < Len(chunk_text))
    /\ chunk_pc' = "returned"
    /\ UNCHANGED <<chunk_text, chunk_size, chunk_overlap, start, chunks>>
    /\ UNCHANGED outsideChunk

NextChunk == ChunkCall \/ ChunkStep \/ ChunkReturn

SpecChunk == InitChunk /\ [][NextChunk]_vars

\* the call keeps running: a statement that can be executed is executed
SpecChunkLive == SpecChunk /\ WF_vars(NextChunk)

(***************************************************************************)
(* Properties of the chunker, under SpecChunk                              *)
(***************************************************************************)
ValidChunking == 0 <= chunk_overlap /\ chunk_overlap < chunk_size

\* C11: for a non-empty text and 0 <= overlap < maxSize, the start offsets
\* of the successive chunks strictly increase, and when _chunk_text returns
\* the last chunk ends exactly at the end of the text
C11_ChunkStartsIncrease ==
    (ValidChunking /\ chunk_text # <<>>) =>
        /\ \A i \in 1..(Len(chunks) - 1) : chunks[i].start < chunks[i + 1].start
        /\ chunk_pc = "returned" =>
               (chunks # <<>> /\ chunks[Len(chunks)].end = Len(chunk_text))

\* The number of characters of the text that two chunks both cover
OverlapCount(c1, c2) ==
    Cardinality({k \in c1.slice.lo..(c1.slice.hi - 1) :
                    c2.slice.lo <= k /\ k < c2.slice.hi})

\* C12: for 0 <= overlap < maxSize, two consecutive chunks cover at most
\* `overlap` characters of the text in common
C12_OverlapBounded ==
    ValidChunking =>
        \A i \in 1..(Len(chunks) - 1) :
            OverlapCount(chunks[i], chunks[i + 1]) <= chunk_overlap

\* a call that returned several chunks, the first of them cut at a break
\* point, two consecutive ones sharing exactly chunk_overlap > 0 characters
C12_OverlapReached ==
    /\ ValidChunking
    /\ chunk_overlap > 0
    /\ chunk_pc = "returned"
    /\ Len(chunks) >= 2
    /\ \E i \in 1..(Len(chunks) - 1) :
           OverlapCount(chunks[i], chunks[i + 1]) = chunk_overlap
    /\ chunks[1].end - chunks[1].start < chunk_size

\* C13: for 0 <= overlap < maxSize every chunk is a non-empty string, and
\* an empty text gives no chunk and no error
C13_ChunksNonEmpty ==
    /\ ValidChunking => \A i \in DOMAIN chunks : chunks[i].slice.text # <<>>
    /\ (chunk_text = <<>> /\ chunk_pc # "called") =>
           (chunk_pc \in {"idle", "returned"} /\ chunks = <<>>)

\* C14: with overlap >= maxSize the chunker refuses to run: it produces no
\* chunk and does not loop
C14_InvalidOverlapRefused ==
    chunk_overlap >= chunk_size => chunks = <<>>

\* the loop is back at a start offset it had before: from there it repeats
\* the same chunks for ever
StartRepeats ==
    /\ chunk_pc = "loop"
    /\ \E i \in DOMAIN chunks : chunks[i].start = start

C30_ChunkWithinSize ==
    ValidChunking =>
        \A i \in DOMAIN chunks :
            /\ Len(chunks[i].slice.text) <= chunk_size
            /\ chunks[i].end - chunks[i].start <= chunk_size

\* a chunk was cut right after a two-character break point that ends at the
\* end of its window, and is exactly maxSize characters long
C30_BreakAtWindowEnd ==
    /\ ValidChunking
    /\ \E i \in DOMAIN chunks :
           /\ chunks[i].end = chunks[i].start + chunk_size
           /\ chunks[i].end < Len(chunk_text)
           /\ chunks[i].end >= 2
           /\ \E b \in {1, 3} :
                  /\ Len(break_points[b]) = 2
                  /\ SubSeq(chunk_text, chunks[i].end - 1, chunks[i].end) = break_points[b]
           /\ Len(chunks[i].slice.text) = chunk_size

(***************************************************************************)
(* The score search computes for one entry, on its own: two entries of     *)
(* one category are scored for one query.  Either the second entry is the  *)
(* first with one more occurrence of a query token in its answer, or the   *)
(* two entries differ in their questions only.                             *)
(***************************************************************************)
\* query_terms, query_intent, query_topics, category_relevance and the
\* score of the entry, as the body of the loops of search computes them
entry_score(category, entry, query) ==
    LetIn(_preprocess_query(query), LAMBDA query_terms :
    LetIn(_classify_query_intent(query), LAMBDA query_intent :
    LetIn(_extract_query_topics(query), LAMBDA query_topics :
    LetIn(_calculate_category_relevance(category, query_terms, query_topics),
          LAMBDA category_relevance :
    LetIn(score_entry(entry, category_relevance, query, query_terms, query_intent),
          LAMBDA r : [score |-> r.score, score_breakdown |-> r.score_breakdown])))))

MaxAnswerWords == 4
MaxQuestionWords == 3

WordFee == <<"f", "e", "e">>
WordDeadline == <<"d", "e", "a", "d", "l", "i", "n", "e">>
WordOther == <<"a", "b">>
WordFeeAsked == <<"f", "e", "e", "?">>
WordWhat == <<"W", "h", "a", "t">>

ScoreCategory == GOOD_FIN.category

AnswerWords == {WordFee, WordDeadline, WordOther}
AnswerQueries == {WordFee \o <<" ">> \o WordDeadline, WordFee}
QuestionWords == {WordFee, WordFeeAsked, WordWhat}
QuestionQueries == {<<"F", "e", "e", "?">>, <<"w", "h", "a", "t", " ", "f", "e", "e">>}

WordLists(words, max) == UNION {[1..n -> words] : n \in 1..max}

\* words with token put in as one more word, before the word of 0-based
\* index k (after the last word when k = Len(words))
InsertWord(words, k, token) == SubSeq(words, 1, k) \o <<token>> \o SubSeq(words, k + 1, Len(words))

AnswerEntry(words) ==
    [kind |-> "record", id |-> "e", question |-> <<"T", "u", "i", "t", "i", "o", "n">>,
     answer |-> join_space(words), type |-> "text", intent |-> NoIntent,
     metadata |-> NoMetadata]

QuestionEntry(words) ==
    [kind |-> "record", id |-> "e", question |-> join_space(words),
     answer |-> GOOD_FIN.entries.items[1].answer, type |-> "short_response",
     intent |-> NoIntent, metadata |-> GOOD_FIN.entries.items[1].metadata]

\* the token is a query term and a word of the answer
AddedCases ==
    UNION {{[kind |-> "added", query |-> case[2], category |-> ScoreCategory,
             token |-> token, index |-> k, words |-> Len(case[1]),
             first |-> AnswerEntry(case[1]),
             second |-> AnswerEntry(InsertWord(case[1], k, token))] :
               token \in {t \in Range(case[1]) : t \in Range(_preprocess_query(case[2]))},
               k \in 0..Len(case[1])} :
           case \in WordLists(AnswerWords, MaxAnswerWords) \X AnswerQueries}

\* query.lower() in question, for the lowercased question of the entry
QuestionHolds(words, query) == contains(lower(join_space(words)), lower(query))

\* the first question holds the query verbatim, the second does not
PairCases ==
    UNION {{[kind |-> "pair", query |-> query, category |-> ScoreCategory,
             first |-> QuestionEntry(a), second |-> QuestionEntry(b)] :
               a \in {w \in WordLists(QuestionWords, MaxQuestionWords) : QuestionHolds(w, query)},
               b \in {w \in WordLists(QuestionWords, MaxQuestionWords) : ~QuestionHolds(w, query)}} :
           query \in QuestionQueries}

InitScore ==
    /\ EngineIdle
    /\ Idle({"put", "conv", "merge", "chunk", "threads", "docs"})
    /\ score_args \in AddedCases \cup PairCases
    /\ score_ret = <<>>
    /\ score_pc = "input"

\* the two entries are met by the loop of search for the query
ScoreCall ==
    /\ score_pc = "input"
    /\ \E a \in {entry_score(score_args.category, score_args.first, score_args.query)},
          b \in {entry_score(score_args.category, score_args.second, score_args.query)} :
           score_ret' = [first |-> a, second |-> b]
    /\ score_pc' = "done"
    /\ UNCHANGED score_args
    /\ UNCHANGED outsideScore

NextScore == ScoreCall

SpecScore == InitScore /\ [][NextScore]_vars

(***************************************************************************)
(* Properties of the score of one entry, under SpecScore                   *)
(***************************************************************************)
\* The second entry is the first with one more occurrence, as a word of
\* its own, of a query token that its answer already holds
AddedCase ==
    /\ score_pc = "done"
    /\ score_args.kind = "added"
    /\ score_args.token \in Range(_preprocess_query(score_args.query))
    /\ contains(lower(score_args.first.answer), score_args.token)

\* C15, as stated: one more occurrence of a query token that the answer
\* already holds, added at any position of the answer, never decreases the
\* final score of the entry
C15_AddedAnywhere ==
    AddedCase => score_ret.second.score >= score_ret.first.score

\* C15, as the scoring computes it: one more occurrence of a query token
\* that the answer already holds, added as a word at the end of the answer,
\* never decreases the final score of the entry
C15_AddedAtEnd ==
    (AddedCase /\ score_args.index = score_args.words) =>
        score_ret.second.score >= score_ret.first.score

\* an occurrence added at the end of an answer that raised the score, the
\* token being counted for the third time
C15_AddedAtEndCounted ==
    /\ AddedCase
    /\ score_args.index = score_args.words
    /\ count(lower(score_args.second.answer), score_args.token) = FrequencyCap
    /\ score_ret.second.score > score_ret.first.score

\* The two entries differ in their questions only, and the first question
\* holds the lowercased query verbatim while the second does not
PairCase ==
    /\ score_pc = "done"
    /\ score_args.kind = "pair"
    /\ contains(lower(score_args.first.question), lower(score_args.query))
    /\ ~contains(lower(score_args.second.question), lower(score_args.query))

MaxThreads == 2

Threads == 1..MaxThreads

ThreadCalls ==
    [query : {<<"f", "e", "e">>, <<"z", "z", "z">>}, top_k : {BrainTopK}]

NoReg == [n |-> 0, value |-> <<>>]

InitThreads ==
    /\ brain_files = <<GOOD_FIN, GOOD_ADM>>
    /\ knowledge_base = load_brain(brain_files)
    /\ scoring_by_query = [query \in Queries |-> scoring_of(knowledge_base, query)]
    /\ now = 0
    /\ _search_cache = <<>>
    /\ _search_stats = [total_searches |-> 0, cache_hits |-> 0, processing_time |-> <<>>]
    /\ _cache = <<>>
    /\ last = NoCall
    /\ Idle({"put", "conv", "merge", "chunk", "score", "docs"})
    /\ thread_call \in [Threads -> ThreadCalls]
    /\ thread_pc = [t \in Threads |-> "read_total"]
    /\ thread_reg = [t \in Threads |-> NoReg]
    /\ thread_ret = [t \in Threads |-> [returned |-> FALSE, from_cache |-> FALSE, value |-> <<>>]]

ThreadKey(t) == search_cache_key(thread_call[t].query, thread_call[t].top_k)

EngineUntouched == UNCHANGED <<brain_files, knowledge_base, scoring_by_query, now, _cache, last>>

\* self._search_stats["total_searches"] += 1: the read
ReadTotal(t) ==
    /\ thread_pc[t] = "read_total"
    /\ thread_reg' = [thread_reg EXCEPT ![t].n = _search_stats.total_searches]
    /\ thread_pc' = [thread_pc EXCEPT ![t] = "write_total"]
    /\ UNCHANGED <<_search_stats, _search_cache, thread_call, thread_ret>>
    /\ EngineUntouched
    /\ UNCHANGED outsideThreads

\* self._search_stats["total_searches"] += 1: the write
WriteTotal(t) ==
    /\ thread_pc[t] = "write_total"
    /\ _search_stats' = [_search_stats EXCEPT !.total_searches = thread_reg[t].n + 1]
    /\ thread_pc' = [thread_pc EXCEPT ![t] = "lookup"]
    /\ UNCHANGED <<_search_cache, thread_call, thread_reg, thread_ret>>
    /\ EngineUntouched
    /\ UNCHANGED outsideThreads

\* cached_result = self._get_from_cache(cache_key); if cached_result:
LookupCache(t) ==
    /\ thread_pc[t] = "lookup"
    /\ \E cached_result \in {_get_from_cache(_search_cache, ThreadKey(t), now)} :
           IF Truthy(cached_result)
           THEN /\ thread_reg' = [thread_reg EXCEPT ![t].value = cached_result.value]
                /\ thread_pc' = [thread_pc EXCEPT ![t] = "read_hits"]
           ELSE /\ thread_reg' = thread_reg
                /\ thread_pc' = [thread_pc EXCEPT ![t] = "score"]
    /\ UNCHANGED <<_search_stats, _search_cache, thread_call, thread_ret>>
    /\ EngineUntouched
    /\ UNCHANGED outsideThreads

\* self._search_stats["cache_hits"] += 1: the read
ReadHits(t) ==
    /\ thread_pc[t] = "read_hits"
    /\ thread_reg' = [thread_reg EXCEPT ![t].n = _search_stats.cache_hits]
    /\ thread_pc' = [thread_pc EXCEPT ![t] = "write_hits"]
    /\ UNCHANGED <<_search_stats, _search_cache, thread_call, thread_ret>>
    /\ EngineUntouched
    /\ UNCHANGED outsideThreads

\* self._search_stats["cache_hits"] += 1: the write; return cached_result
WriteHits(t) ==
    /\ thread_pc[t] = "write_hits"
    /\ _search_stats' = [_search_stats EXCEPT !.cache_hits = thread_reg[t].n + 1]
    /\ thread_ret' = [thread_ret EXCEPT ![t] = [returned |-> TRUE, from_cache |-> TRUE,
                                                 value |-> thread_reg[t].value]]
    /\ thread_pc' = [thread_pc EXCEPT ![t] = "done"]
    /\ UNCHANGED <<_search_cache, thread_call, thread_reg>>
    /\ EngineUntouched
    /\ UNCHANGED outsideThreads

\* the scoring loop, the sort and the slice: local to the thread
ScoreEntries(t) ==
    /\ thread_pc[t] = "score"
    /\ ~scoring_by_query[thread_call[t].query].raises
    /\ \E top_results \in {top_results_of(scoring_by_query[thread_call[t].query].results,
                                           thread_call[t].top_k)} :
           thread_reg' = [thread_reg EXCEPT ![t].value = top_results]
    /\ thread_pc' = [thread_pc EXCEPT ![t] = "store"]
    /\ UNCHANGED <<_search_stats, _search_cache, thread_call, thread_ret>>
    /\ EngineUntouched
    /\ UNCHANGED outsideThreads

\* self._store_in_cache(cache_key, top_results)
StoreResults(t) ==
    /\ thread_pc[t] = "store"
    /\ _search_cache' = search_store_in_cache(_search_cache, ThreadKey(t), thread_reg[t].value, now)
    /\ thread_pc' = [thread_pc EXCEPT ![t] = "time"]
    /\ UNCHANGED <<_search_stats, thread_call, thread_reg, thread_ret>>
    /\ EngineUntouched
    /\ UNCHANGED outsideThreads

\* self._search_stats["processing_time"].append(...); return top_results
AppendTime(t) ==
    /\ thread_pc[t] = "time"
    /\ _search_stats' = [_search_stats EXCEPT !.processing_time = Append(@, 0)]
    /\ thread_ret' = [thread_ret EXCEPT ![t] = [returned |-> TRUE, from_cache |-> FALSE,
                                                 value |-> thread_reg[t].value]]
    /\ thread_pc' = [thread_pc EXCEPT ![t] = "done"]
    /\ UNCHANGED <<_search_cache, thread_call, thread_reg>>
    /\ EngineUntouched
    /\ UNCHANGED outsideThreads

NextThreads ==
    \E t \in Threads :
        \/ ReadTotal(t)
        \/ WriteTotal(t)
        \/ LookupCache(t)
        \/ ReadHits(t)
        \/ WriteHits(t)
        \/ ScoreEntries(t)
        \/ StoreResults(t)
        \/ AppendTime(t)

SpecThreads == InitThreads /\ [][NextThreads]_vars

(***************************************************************************)
(* Properties of overlapping searches, under SpecThreads                   *)
(***************************************************************************)
AllReturned == \A t \in Threads : thread_pc[t] = "done"

MaxDocChunks == 2
MaxDeletes == 2

DocId == "doc"

InitDocs ==
    /\ EngineIdle
    /\ Idle({"put", "conv", "merge", "chunk", "score", "threads", "docs"})

\* upload_document: process_document writes the text file and the metadata,
\* then the indexing task is scheduled; doc_chunks is the number of chunks
\* the text gives, 0 for an empty text
upload_document ==
    /\ upload_pc = "idle"
    /\ \E n \in 0..MaxDocChunks : doc_chunks' = n
    /\ text_files' = text_files \cup {DocId}
    /\ metadata_file' = metadata_file \cup {DocId}
    /\ upload_pc' = "returned"
    /\ task_pc' = "get_text"
    /\ UNCHANGED <<collection, task_chunks, delete_pc, delete_ids, deletes>>
    /\ UNCHANGED outsideDocs

\* update_vector_store: doc_text = get_document_text(doc_id); if not doc_text
TaskGetText ==
    /\ task_pc = "get_text"
    /\ task_pc' = IF DocId \in metadata_file /\ DocId \in text_files /\ doc_chunks > 0
                  THEN "read_metadata" ELSE "finished"
    /\ UNCHANGED <<metadata_file, text_files, collection, doc_chunks, upload_pc,
                   task_chunks, delete_pc, delete_ids, deletes>>
    /\ UNCHANGED outsideDocs

\* update_vector_store: all_metadata = json.load(f); if doc_id not in all_metadata
TaskReadMetadata ==
    /\ task_pc = "read_metadata"
    /\ task_pc' = IF DocId \in metadata_file THEN "chunk" ELSE "finished"
    /\ UNCHANGED <<metadata_file, text_files, collection, doc_chunks, upload_pc,
                   task_chunks, delete_pc, delete_ids, deletes>>
    /\ UNCHANGED outsideDocs

\* update_vector_store: chunks = self._chunk_text(doc_text) and their ids
TaskChunk ==
    /\ task_pc = "chunk"
    /\ task_chunks' = 0..(doc_chunks - 1)
    /\ task_pc' = "add"
    /\ UNCHANGED <<metadata_file, text_files, collection, doc_chunks, upload_pc,
                   delete_pc, delete_ids, deletes>>
    /\ UNCHANGED outsideDocs

\* update_vector_store: self.collection.add(documents, ids, metadatas)
TaskAdd ==
    /\ task_pc = "add"
    /\ collection' = collection \cup task_chunks
    /\ task_pc' = "finished"
    /\ UNCHANGED <<metadata_file, text_files, doc_chunks, upload_pc,
                   task_chunks, delete_pc, delete_ids, deletes>>
    /\ UNCHANGED outsideDocs

\* delete_document: the request arrives; DocumentProcessor.delete_document
\* loads the metadata and answers False (404) for an unknown document
DeleteReadMetadata ==
    /\ delete_pc \in {"idle", "not_found", "returned"}
    /\ deletes < MaxDeletes
    /\ deletes' = deletes + 1
    /\ delete_pc' = IF DocId \in metadata_file THEN "remove_files" ELSE "not_found"
    /\ UNCHANGED <<metadata_file, text_files, collection, doc_chunks, upload_pc,
                   task_pc, task_chunks, delete_ids>>
    /\ UNCHANGED outsideDocs

\* DocumentProcessor.delete_document: os.remove of the original and text file
DeleteRemoveFiles ==
    /\ delete_pc = "remove_files"
    /\ text_files' = text_files \ {DocId}
    /\ delete_pc' = "write_metadata"
    /\ UNCHANGED <<metadata_file, collection, doc_chunks, upload_pc,
                   task_pc, task_chunks, delete_ids, deletes>>
    /\ UNCHANGED outsideDocs

\* DocumentProcessor.delete_document: del all_metadata[doc_id]; json.dump
DeleteWriteMetadata ==
    /\ delete_pc = "write_metadata"
    /\ metadata_file' = metadata_file \ {DocId}
    /\ delete_pc' = "get_chunks"
    /\ UNCHANGED <<text_files, collection, doc_chunks, upload_pc,
                   task_pc, task_chunks, delete_ids, deletes>>
    /\ UNCHANGED outsideDocs

\* remove_document: results = self.collection.get(where={"doc_id": doc_id})
RemoveGetChunks ==
    /\ delete_pc = "get_chunks"
    /\ delete_ids' = collection
    /\ delete_pc' = "delete_chunks"
    /\ UNCHANGED <<metadata_file, text_files, collection, doc_chunks, upload_pc,
                   task_pc, task_chunks, deletes>>
    /\ UNCHANGED outsideDocs

\* remove_document: for chunk_id in results["ids"]: self.collection.delete(chunk_id)
RemoveDeleteChunk ==
    /\ delete_pc = "delete_chunks"
    /\ delete_ids # {}
    /\ \E chunk_id \in {CHOOSE low \in delete_ids : \A other \in delete_ids : low <= other} :
           /\ collection' = collection \ {chunk_id}
           /\ delete_ids' = delete_ids \ {chunk_id}
    /\ UNCHANGED <<metadata_file, text_files, doc_chunks, upload_pc,
                   task_pc, task_chunks, delete_pc, deletes>>
    /\ UNCHANGED outsideDocs

\* delete_document: return {"status": "success", ...}
DeleteReturn ==
    /\ delete_pc = "delete_chunks"
    /\ delete_ids = {}
    /\ delete_pc' = "returned"
    /\ UNCHANGED <<metadata_file, text_files, collection, doc_chunks, upload_pc,
                   task_pc, task_chunks, delete_ids, deletes>>
    /\ UNCHANGED outsideDocs

NextDocs ==
    \/ upload_document
    \/ TaskGetText
    \/ TaskReadMetadata
    \/ TaskChunk
    \/ TaskAdd
    \/ DeleteReadMetadata
    \/ DeleteRemoveFiles
    \/ DeleteWriteMetadata
    \/ RemoveGetChunks
    \/ RemoveDeleteChunk
    \/ DeleteReturn

SpecDocs == InitDocs /\ [][NextDocs]_vars

(***************************************************************************)
(* Properties of upload, indexing and delete, under SpecDocs               *)
(***************************************************************************)
\* C18: for every interleaving of the upload, the background indexing task
\* and a delete of the same document, once the delete has returned success
\* and the background task has finished, the vector index holds no chunk of
\* the deleted document
C18_ChunksGoWithDocument ==
    (delete_pc = "returned" /\ task_pc = "finished") => collection = {}

(***************************************************************************)
(* _store_in_cache of the two caches on its own: a dict of up to 101       *)
(* entries with stamps 0, 150, 300 and 450, and stores of an old and of a  *)
(* new key at later times.  One dict belongs to one of the two engines.    *)
(***************************************************************************)
MaxPuts == 2

PutKey(i) == <<"k">> \o NatToChars(i)

PutSizes == {0, 2, SearchCleanThreshold - 1, SearchCleanThreshold, SearchCleanThreshold + 1}

PutStamp(i) == (i % 4) * 150

PutCacheOf(n) ==
    [key \in {PutKey(i) : i \in 1..n} |->
        [timestamp |-> PutStamp(CHOOSE i \in 1..n : PutKey(i) = key), value |-> <<"o">>]]

PutKeys == {PutKey(1), PutKey(SearchCleanThreshold + 2)}

PutTimes == {450, 451, 600, 601, 751}

InitPut ==
    /\ EngineIdle
    /\ Idle({"conv", "merge", "chunk", "score", "threads", "docs"})
    /\ \E n \in PutSizes : put_cache = PutCacheOf(n)
    /\ put_before = put_cache
    /\ \E kind \in {"search", "facade"} :
           put_call = [kind |-> kind, key |-> <<>>, value |-> <<>>, time |-> 0, done |-> FALSE]
    /\ put_now = 450
    /\ put_count = 0

\* time.time() advances between stores
PutTick(t) ==
    /\ t > put_now
    /\ put_now' = t
    /\ UNCHANGED <<put_cache, put_before, put_call, put_count>>
    /\ UNCHANGED outsidePut

\* BrainSearchEngine._store_in_cache(key, results)
SearchStore(key, results) ==
    /\ put_call.kind = "search"
    /\ put_count < MaxPuts
    /\ put_cache' = search_store_in_cache(put_cache, key, results, put_now)
    /\ put_before' = put_cache
    /\ put_call' = [kind |-> "search", key |-> key, value |-> results, time |-> put_now,
                    done |-> TRUE]
    /\ put_count' = put_count + 1
    /\ UNCHANGED put_now
    /\ UNCHANGED outsidePut

\* ExtendedRetrievalEngine._store_in_cache(key, data)
FacadeStore(key, data) ==
    /\ put_call.kind = "facade"
    /\ put_count < MaxPuts
    /\ put_cache' = facade_store_in_cache(put_cache, key, data, put_now)
    /\ put_before' = put_cache
    /\ put_call' = [kind |-> "facade", key |-> key, value |-> data, time |-> put_now,
                    done |-> TRUE]
    /\ put_count' = put_count + 1
    /\ UNCHANGED put_now
    /\ UNCHANGED outsidePut

NextPut ==
    \/ \E t \in PutTimes : PutTick(t)
    \/ \E key \in PutKeys : SearchStore(key, <<"r">>)
    \/ \E key \in PutKeys : FacadeStore(key, <<"r">>)

SpecPut == InitPut /\ [][NextPut]_vars

(***************************************************************************)
(* Properties of the stores, under SpecPut                                 *)
(***************************************************************************)
PutDone == put_count > 0 /\ put_call.done

\* the dict right after the assignment of the store, before the clean-up
PutAssigned ==
    [k \in DOMAIN put_before \cup {put_call.key} |->
        IF k = put_call.key THEN [timestamp |-> put_call.time, value |-> put_call.value]
        ELSE put_before[k]]

PutAge(k) == put_call.time - PutAssigned[k].timestamp

\* the entry count after which a store cleans up: 100 in the structured
\* search cache, every store in the facade cache
PutAboveMark ==
    \/ put_call.kind = "facade"
    \/ Cardinality(DOMAIN PutAssigned) > SearchCleanThreshold

\* C21: a store always leaves the key with an entry stamped with the current
\* time, and whenever it leaves the entry count above the high-water mark
\* (100 in the structured search cache, every store in the facade cache) the
\* clean-up that follows removes every entry whose age exceeds the TTL and
\* no entry whose age is below the TTL
C21_StoreStampsAndCleans ==
    PutDone =>
        /\ put_call.key \in DOMAIN put_cache
        /\ put_cache[put_call.key] = [timestamp |-> put_call.time, value |-> put_call.value]
        /\ PutAboveMark =>
               /\ \A k \in DOMAIN PutAssigned :
                      PutAge(k) > CacheTTL => k \notin DOMAIN put_cache
               /\ \A k \in DOMAIN PutAssigned :
                      PutAge(k) < CacheTTL =>
                          k \in DOMAIN put_cache /\ put_cache[k] = PutAssigned[k]

\* a store of a new key took a structured search cache of 100 entries to
\* 101, and the clean-up removed entries older than the TTL and kept
\* younger ones
C21_CleanedAtMark ==
    /\ PutDone
    /\ put_call.kind = "search"
    /\ Cardinality(DOMAIN PutAssigned) = SearchCleanThreshold + 1
    /\ Cardinality(DOMAIN put_before) = SearchCleanThreshold
    /\ \E k \in DOMAIN PutAssigned : PutAge(k) > CacheTTL /\ k \notin DOMAIN put_cache
    /\ \E k \in DOMAIN PutAssigned : PutAge(k) < CacheTTL /\ PutAge(k) > 0 /\ k \in DOMAIN put_cache

(***************************************************************************)
(* Properties of the statistics of the search engine, under SpecSearch     *)
(***************************************************************************)
\* no search on this knowledge base raises
SearchesReturn == \A query \in Queries : ~scoring_by_query[query].raises

\* C29: after any sequence of sequential search calls that return normally,
\* cache_hits <= total_searches and total_searches = cache_hits + the number
\* of recorded processing-time samples: every search is counted exactly
\* once, as a hit or as a timed miss
C29_StatsAddUp ==
    SearchesReturn =>
        /\ _search_stats.cache_hits <= _search_stats.total_searches
        /\ _search_stats.total_searches
               = _search_stats.cache_hits + Len(_search_stats.processing_time)

\* two searches were made, one timed miss and one hit
C29_HitAndMiss ==
    /\ SearchesReturn
    /\ Searched
    /\ last.from_cache
    /\ _search_stats.total_searches = 2
    /\ _search_stats.cache_hits = 1
    /\ Len(_search_stats.processing_time) = 1

(***************************************************************************)
(* Properties of the scores of the results of a search, under SpecSearch   *)
(***************************************************************************)
\* the six components C22 names, of the score dict of a result
SixComponents(score) ==
    score.category_match + score.question_match + score.answer_match
    + score.metadata_match + score.type_match + score.exact_match

\* C22: the final score search assigns to an entry is exactly the sum of
\* six components, category relevance, question match, answer match,
\* metadata match, type bonus and exact-substring bonus, and nothing else
C22_SixComponentScore ==
    (Searched /\ ~last.raised) =>
        \A i \in DOMAIN last.ret :
            last.ret[i].score = SixComponents(last.ret[i].score_breakdown)

ScoredZero(category, entry, query) == entry_score(category, entry, query).score = 0

\* C23: every result search returns has a strictly positive final score: an
\* entry of final score 0 is never in the list and no score is negative
C23_ScoresPositive ==
    (Searched /\ ~last.raised) =>
        \A i \in DOMAIN last.ret : last.ret[i].score > 0

\* a search over a knowledge base that holds an entry of final score 0
\* for the query returned other entries, fewer than top_k
C23_ZeroLeftOut ==
    /\ Searched
    /\ ~last.raised
    /\ ~last.from_cache
    /\ last.ret # <<>>
    /\ Len(last.ret) < last.top_k
    /\ \E c \in DOMAIN knowledge_base :
           \E e \in DOMAIN knowledge_base[c].value.items :
               /\ ScoredZero(knowledge_base[c].key, knowledge_base[c].value.items[e], last.query)
               /\ \A i \in DOMAIN last.ret :
                      last.ret[i].entry # knowledge_base[c].value.items[e]

(***************************************************************************)
(* ConversationMemory (conversation_memory.py) and the chat endpoint that  *)
(* uses it.  The memory is a record mem of the two dicts, the number of    *)
(* ids given out and the clock; a conversation id is the number uuid4 gave *)
(* it, 0 stands for no conversation_id.  A message records the user_id     *)
(* argument it was added with and the chat request it belongs to (0 for a  *)
(* direct add_message).                                                    *)
(***************************************************************************)
ConversationMaxMessages == 20

NoConversation == 0

\* Conversation(user_id): a fresh id, no message, stamped
new_conversation(id, user_id, t) ==
    [id |-> id, user_id |-> user_id, messages |-> <<>>, last_updated |-> t]

\* ConversationMemory.create_conversation
create_conversation(mem, user_id) ==
    LetIn(mem.ids + 1, LAMBDA id :
        [id |-> id,
         mem |-> [conversations |->
                      [c \in DOMAIN mem.conversations \cup {id} |->
                          IF c = id THEN new_conversation(id, user_id, mem.clock + 1)
                          ELSE mem.conversations[c]],
                  user_conversations |->
                      [u \in DOMAIN mem.user_conversations \cup {user_id} |->
                          IF u = user_id
                          THEN Append(IF u \in DOMAIN mem.user_conversations
                                      THEN mem.user_conversations[u] ELSE <<>>, id)
                          ELSE mem.user_conversations[u]],
                  ids |-> id,
                  clock |-> mem.clock + 1]])

\* ConversationMemory.get_user_conversations: the ids of the user's list
\* that are still in conversations
get_user_conversations(mem, user_id) ==
    IF user_id \in DOMAIN mem.user_conversations
    THEN SelectSeq(mem.user_conversations[user_id],
                   LAMBDA c : c \in DOMAIN mem.conversations)
    ELSE <<>>

\* max(user_convs, key=lambda conv: conv.last_updated): the first of the
\* most recently updated ones
most_recent(mem, ids) ==
    ids[CHOOSE i \in DOMAIN ids :
            /\ \A j \in DOMAIN ids :
                   mem.conversations[ids[j]].last_updated
                       <= mem.conversations[ids[i]].last_updated
            /\ \A j \in DOMAIN ids :
                   mem.conversations[ids[j]].last_updated
                       = mem.conversations[ids[i]].last_updated => i <= j]

\* ConversationMemory.get_active_conversation
get_active_conversation(mem, user_id) ==
    LetIn(get_user_conversations(mem, user_id), LAMBDA user_convs :
        IF user_convs = <<>> THEN create_conversation(mem, user_id)
        ELSE [id |-> most_recent(mem, user_convs), mem |-> mem])

\* Conversation.add_message: append, stamp, trim to max_messages
conversation_add_message(conversation, message, t) ==
    LetIn(Append(conversation.messages, message), LAMBDA messages :
        [conversation EXCEPT
            !.messages = IF Len(messages) > ConversationMaxMessages
                         THEN Drop(messages, Len(messages) - ConversationMaxMessages)
                         ELSE messages,
            !.last_updated = t])

\* ConversationMemory.add_message
add_message(mem, user_id, role, request, conversation_id) ==
    LetIn(IF conversation_id # NoConversation /\ conversation_id \in DOMAIN mem.conversations
          THEN [id |-> conversation_id, mem |-> mem]
          ELSE get_active_conversation(mem, user_id), LAMBDA found :
        [id |-> found.id,
         mem |-> [found.mem EXCEPT
                     !.conversations[found.id] =
                         conversation_add_message(@, [role |-> role, by |-> user_id,
                                                      request |-> request],
                                                  found.mem.clock + 1),
                     !.clock = @ + 1]])

\* the list without its first occurrence of x: list.remove(x)
RECURSIVE list_remove(_, _)
list_remove(seq, x) ==
    IF seq = <<>> THEN <<>>
    ELSE IF Head(seq) = x THEN Tail(seq)
    ELSE <<Head(seq)>> \o list_remove(Tail(seq), x)

\* ConversationMemory.delete_conversation
delete_conversation(mem, conversation_id) ==
    IF conversation_id \notin DOMAIN mem.conversations THEN mem
    ELSE LetIn(mem.conversations[conversation_id].user_id, LAMBDA user_id :
        [mem EXCEPT
            !.user_conversations =
                [u \in DOMAIN mem.user_conversations |->
                    IF u = user_id THEN list_remove(mem.user_conversations[u], conversation_id)
                    ELSE mem.user_conversations[u]],
            !.conversations =
                [c \in DOMAIN mem.conversations \ {conversation_id} |-> mem.conversations[c]]])

RECURSIVE delete_each(_, _)
delete_each(mem, ids) ==
    IF ids = <<>> THEN mem
    ELSE delete_each(delete_conversation(mem, Head(ids)), Tail(ids))

\* ConversationMemory.clear_user_conversations
clear_user_conversations(mem, user_id) ==
    IF user_id \notin DOMAIN mem.user_conversations THEN mem
    ELSE delete_each(mem, mem.user_conversations[user_id])

\* process_chat: the user message is added with the conversation_id of the
\* request, the active conversation of the user is looked up, and when a
\* response was generated it is added to that conversation
process_chat(mem, user_id, conversation_id, request, answered) ==
    LetIn(add_message(mem, user_id, "user", request, conversation_id), LAMBDA asked :
    LetIn(get_active_conversation(asked.mem, user_id), LAMBDA conversation :
        IF answered
        THEN add_message(conversation.mem, user_id, "assistant", request, conversation.id).mem
        ELSE conversation.mem))

MaxConversations == 2
MaxMessages == 3

Users == {"u", "v"}

ConversationIds == 0..MaxConversations

Memory ==
    [conversations |-> conversations, user_conversations |-> user_conversations,
     ids |-> conv_ids, clock |-> conv_clock]

InitConv ==
    /\ EngineIdle
    /\ Idle({"put", "conv", "merge", "chunk", "score", "threads", "docs"})

\* the memory after a call, within the ids and the messages of the model
Remember(mem, added) ==
    /\ mem.ids <= MaxConversations
    /\ conv_messages + added <= MaxMessages
    /\ conversations' = mem.conversations
    /\ user_conversations' = mem.user_conversations
    /\ conv_ids' = mem.ids
    /\ conv_clock' = mem.clock
    /\ conv_messages' = conv_messages + added

CreateConversation(user_id) ==
    /\ \E r \in {create_conversation(Memory, user_id)} : Remember(r.mem, 0)
    /\ UNCHANGED conv_requests
    /\ UNCHANGED outsideConv

AddMessage(user_id, conversation_id) ==
    /\ \E r \in {add_message(Memory, user_id, "user", 0, conversation_id)} : Remember(r.mem, 1)
    /\ UNCHANGED conv_requests
    /\ UNCHANGED outsideConv

DeleteConversation(conversation_id) ==
    /\ conversation_id \in DOMAIN conversations
    /\ \E mem \in {delete_conversation(Memory, conversation_id)} : Remember(mem, 0)
    /\ UNCHANGED conv_requests
    /\ UNCHANGED outsideConv

ClearUserConversations(user_id) ==
    /\ get_user_conversations(Memory, user_id) # <<>>
    /\ \E mem \in {clear_user_conversations(Memory, user_id)} : Remember(mem, 0)
    /\ UNCHANGED conv_requests
    /\ UNCHANGED outsideConv

ProcessChat(user_id, conversation_id, answered) ==
    /\ \E mem \in {process_chat(Memory, user_id, conversation_id, conv_requests + 1, answered)} :
           Remember(mem, IF answered THEN 2 ELSE 1)
    /\ conv_requests' = conv_requests + 1
    /\ UNCHANGED outsideConv

NextConv ==
    \/ \E user_id \in Users : CreateConversation(user_id)
    \/ \E user_id \in Users, conversation_id \in ConversationIds :
           AddMessage(user_id, conversation_id)
    \/ \E conversation_id \in ConversationIds : DeleteConversation(conversation_id)
    \/ \E user_id \in Users : ClearUserConversations(user_id)
    \/ \E user_id \in Users, conversation_id \in ConversationIds, answered \in BOOLEAN :
           ProcessChat(user_id, conversation_id, answered)

SpecConv == InitConv /\ [][NextConv]_vars

(***************************************************************************)
(* Properties of the conversation memory, under SpecConv                   *)
(***************************************************************************)
StoredMessages ==
    UNION {{[conversation |-> c, message |-> conversations[c].messages[i]] :
               i \in DOMAIN conversations[c].messages} : c \in DOMAIN conversations}

\* C28: after any sequence of create_conversation, add_message,
\* delete_conversation and clear_user_conversations calls, a message added
\* with add_message(user_id = u, ..., conversation_id = c) is stored only in
\* a conversation whose user_id is u, and the user message and the
\* assistant reply of one chat request are stored in the same conversation
C28_ConversationOwnership ==
    /\ \A m \in StoredMessages :
           m.message.by = conversations[m.conversation].user_id
    /\ \A m1, m2 \in StoredMessages :
           (m1.message.request > 0 /\ m1.message.request = m2.message.request)
               => m1.conversation = m2.conversation

====
